---- MODULE Spec2Model ----
(***************************************************************************)
(* Streaming session core of the riptide terminal chat client:             *)
(*   - the stream worker of Client.CreateChatCompletionStream, which       *)
(*     assembles tool-call deltas and feeds the event channel,             *)
(*   - the Bubble Tea controller (Model.Update and its handlers),          *)
(*   - the tool batch goroutine of Model.handleExecuteTools,               *)
(*   - the conversation History.                                           *)
(* Commands returned by Update run in their own goroutines; their results  *)
(* reach Update one at a time, in any order (the bag cmds).                *)
(***************************************************************************)
EXTENDS Naturals, Sequences, FiniteSets, Bags, TLC

\* ------------------------------------------------------------------ bounds
\* CreateChatCompletionStream calls per run (successful or not).
MaxStreams == 3
\* Ctrl+C is pressed only in runs with at most this many such calls so far.
MaxQuitStreams == 1
\* Lines the user submits with Enter per run.
MaxInputs == 2
\* Length of the delta sequences fed to the assembler on its own.
MaxDeltas == 3
\* CreateChatCompletionStream calls per run of the worker on its own.
MaxWorkers == 2
\* Length of the message lists Trim is applied to.
MaxMessages == 24
\* Trim calls in a row per run of History on its own.
MaxTrims == 2
\* UpdateTokenUsage calls per run of History on its own.
MaxRecordings == 1
\* Calls of History methods per run of History on its own.
MaxHistoryCalls == 3
\* /add commands per run.
MaxAdds == 2
\* Failures of Config.Save per run.
MaxSaveFailures == 1
\* Responses of the upstream that sends without end.
MaxResponses == 101
\* Keys pressed at the input line per run.
MaxKeys == 4
\* Typed lines that start a turn per run.
MaxTyped == 1

\* Capacity of the event channel (make(chan StreamEvent, 100)).
ChanCap == 100
\* API.TimeoutSeconds of loadDefaults.
DefaultTimeoutSeconds == 300
\* UI.MaxHistoryMessages of loadDefaults.
DefaultMaxHistoryMessages == 15
\* Trim leaves a History of at most this many messages alone.
TrimThreshold == 20

\* ------------------------------------------------------------------ data
Nil == "nil"

StateReady == "Ready"
StateProcessing == "Processing"
StateStreaming == "Streaming"
StateError == "Error"
StateQuitting == "Quitting"

\* api.ToolCall as the worker creates it when it grows the list.
EmptyToolCall == [ID |-> "", Type |-> "function", Name |-> "", Arguments |-> ""]

\* One entry of delta.ToolCalls; HasIndex is FALSE when Index is a nil pointer.
Delta(i, id, name, args) ==
    [HasIndex |-> TRUE, Index |-> i, ID |-> id, Name |-> name, Arguments |-> args]

\* ------------------------------------------------------------ assembler
\* for len(toolCalls) <= index { toolCalls = append(toolCalls, ToolCall{Type: "function"}) }
Grow(toolCalls, index) ==
    IF Len(toolCalls) <= index
    THEN toolCalls \o [k \in 1..(index + 1 - Len(toolCalls)) |-> EmptyToolCall]
    ELSE toolCalls

\* A variant of UpdateToolCall that keeps only the latest name and arguments
\* fragment instead of concatenating.
UpdateToolCallOverwrite(tc, d) ==
    [ID |-> IF d.ID # "" THEN d.ID ELSE tc.ID,
     Type |-> tc.Type,
     Name |-> IF d.Name # "" THEN d.Name ELSE tc.Name,
     Arguments |-> IF d.Arguments # "" THEN d.Arguments ELSE tc.Arguments]

\* A variant of UpdateToolCall that assigns the fragment's id whether or not
\* it is empty.
UpdateToolCallAssignID(tc, d) ==
    [ID |-> d.ID,
     Type |-> tc.Type,
     Name |-> IF d.Name # "" THEN tc.Name \o d.Name ELSE tc.Name,
     Arguments |-> IF d.Arguments # "" THEN tc.Arguments \o d.Arguments ELSE tc.Arguments]

\* The update of toolCalls[index] by one delta.
UpdateToolCall(tc, d) ==
    [ID |-> IF d.ID # "" THEN d.ID ELSE tc.ID,
     Type |-> tc.Type,
     Name |-> IF d.Name # "" THEN tc.Name \o d.Name ELSE tc.Name,
     Arguments |-> IF d.Arguments # "" THEN tc.Arguments \o d.Arguments ELSE tc.Arguments]

\* The body of the loop over delta.ToolCalls for one delta.
ApplyDelta(toolCalls, d) ==
    IF ~d.HasIndex
    THEN toolCalls
    ELSE LET g == Grow(toolCalls, d.Index)
         IN [g EXCEPT ![d.Index + 1] = UpdateToolCall(g[d.Index + 1], d)]

\* The loop over delta.ToolCalls.
RECURSIVE ApplyDeltas(_, _)
ApplyDeltas(toolCalls, ds) ==
    IF ds = <<>> THEN toolCalls
    ELSE ApplyDeltas(ApplyDelta(toolCalls, Head(ds)), Tail(ds))

\* ------------------------------------------------------------- transport
\* One response of stream.Recv(): the content and tool-call deltas of its first
\* choice, whether its finish reason is "tool_calls", whether it carries usage.
Chunk(content, deltas, finish, usage) ==
    [Content |-> content, Deltas |-> deltas, Finish |-> finish, Usage |-> usage]

D0 == Delta(0, "c1", "read_file", "{}")
D1 == Delta(1, "c2", "rm", "{}")

\* The responses the upstream sends on one request, when nothing cuts it short:
\* content only; one call without and with the finish reason; content and two
\* calls; a call at index 1 alone; content and usage; usage on a response that
\* is not the last one (an upstream that reports usage with every response).
Scripts ==
    { << Chunk("Hel", <<>>, FALSE, FALSE), Chunk("lo", <<>>, FALSE, FALSE) >>,
      << Chunk("", <<D0>>, FALSE, FALSE) >>,
      << Chunk("", <<D0>>, TRUE, FALSE) >>,
      << Chunk("Hel", <<>>, FALSE, FALSE), Chunk("", <<D0, D1>>, TRUE, FALSE) >>,
      << Chunk("", <<D1>>, TRUE, FALSE) >>,
      << Chunk("Hel", <<>>, FALSE, FALSE), Chunk("", <<>>, FALSE, TRUE) >>,
      << Chunk("Hel", <<>>, FALSE, TRUE), Chunk("lo", <<>>, FALSE, FALSE) >> }

\* The responses Recv may return after the responses recvd: the upstream follows
\* one of Scripts, and may end (io.EOF) or fail after any response.
NextChunks(recvd) ==
    { sc[Len(recvd) + 1] :
        sc \in { x \in Scripts : Len(x) > Len(recvd) /\ SubSeq(x, 1, Len(recvd)) = recvd } }

\* Errors Recv returns other than io.EOF: a transport failure, or the error of
\* the request's context (ctxErr, Nil while the context is not done).
RecvErrors(ctxErr) ==
    {"transport"} \cup (IF ctxErr # Nil THEN {ctxErr} ELSE {})

\* ---------------------------------------------------------------- events
\* api.StreamEvent; Usage is TRUE when the event carries a *TokenUsage.
Event(type, content, toolCalls, err, usage) ==
    [Type |-> type, Content |-> IF type = "Reasoning" THEN "" ELSE content,
     ReasoningContent |-> IF type = "Reasoning" THEN content ELSE "",
     ToolCalls |-> toolCalls, Error |-> err, Usage |-> usage]

ContentEvent(c) == Event("Content", c, <<>>, Nil, FALSE)
ToolCallEvent(tcs) == Event("ToolCall", "", tcs, Nil, FALSE)
DoneEvent(usage) == Event("Done", "", <<>>, Nil, usage)
ErrorEvent(e) == Event("Error", "", <<>>, e, FALSE)
NoEvent == Event("None", "", <<>>, Nil, FALSE)

\* A variant that reports usage before the response's content and tool calls.
ChunkEventsUsageFirst(c, toolCalls) ==
    (IF c.Usage THEN <<DoneEvent(TRUE)>> ELSE <<>>)
    \o (IF c.Content # "" THEN <<ContentEvent(c.Content)>> ELSE <<>>)
    \o (IF c.Finish /\ Len(toolCalls) > 0 THEN <<ToolCallEvent(toolCalls)>> ELSE <<>>)

\* The events one loop iteration of the worker sends for a response, given the
\* tool-call list after the response's deltas were applied.
ChunkEvents(c, toolCalls) ==
    (IF c.Content # "" THEN <<ContentEvent(c.Content)>> ELSE <<>>)
    \o (IF c.Finish /\ Len(toolCalls) > 0 THEN <<ToolCallEvent(toolCalls)>> ELSE <<>>)
    \o (IF c.Usage THEN <<DoneEvent(TRUE)>> ELSE <<>>)

\* --------------------------------------------------------------- history
Message(role, content, toolCalls, toolCallID) ==
    [Role |-> role, Content |-> content, ToolCalls |-> toolCalls,
     ToolCallID |-> toolCallID]

SystemPrompt == Message("system", "prompt", <<>>, "")

AddMessage(h, role, content, toolCalls, toolCallID) ==
    Append(h, Message(role, content, toolCalls, toolCallID))

AddUserMessage(h, content) == AddMessage(h, "user", content, <<>>, "")
AddAssistantMessage(h, content, toolCalls) == AddMessage(h, "assistant", content, toolCalls, "")
AddToolMessage(h, toolCallID, content) == AddMessage(h, "tool", content, <<>>, toolCallID)

\* A variant that keeps the most recent message.
ClearKeepLast(h) == <<h[Len(h)]>>

\* A variant that leaves the tool results out of the request.
GetMessagesWithoutTools(h) ==
    LET kept == SelectSeq(h, LAMBDA m : m.Role # "tool")
    IN [i \in DOMAIN kept |->
          [Role |-> kept[i].Role, Content |-> kept[i].Content,
           ToolCalls |-> <<>>, ToolCallID |-> ""]]

\* History.GetMessages: the messages in OpenAI format, in order.
GetMessages(h) ==
    [i \in DOMAIN h |->
       [Role |-> h[i].Role,
        Content |-> h[i].Content,
        ToolCalls |->
          [j \in DOMAIN h[i].ToolCalls |->
             [ID |-> h[i].ToolCalls[j].ID,
              Type |-> h[i].ToolCalls[j].Type,
              Function |-> [Name |-> h[i].ToolCalls[j].Name,
                            Arguments |-> h[i].ToolCalls[j].Arguments]]],
        ToolCallID |-> h[i].ToolCallID]]

\* History.Clear on the message list.
Clear(h) == <<h[1]>>

\* A variant that keeps only the first message of h (the system prompt).
FirstSystemMessage(h) == SubSeq(h, 1, 1)

AddSystemMessage(h, content) == AddMessage(h, "system", content, <<>>, "")

\* contains(s, substr): findSubstring(s, substr) != -1
Contains(s, substr) ==
    /\ Len(s) >= Len(substr)
    /\ \E i \in 0..(Len(s) - Len(substr)) : SubSeq(s, i + 1, i + Len(substr)) = substr

\* fmt.Sprintf("Content of file '%s'", filePath)
FileMarker(filePath) == "Content of file '" \o filePath \o "'"

\* History.FileAlreadyInContext
FileAlreadyInContext(h, filePath) ==
    \E i \in DOMAIN h :
      /\ h[i].Role = "system"
      /\ Len(h[i].Content) > 0
      /\ Contains(h[i].Content, FileMarker(filePath))

\* What ReadFileForContext returns for a file holding the text data.
ReadFileForContext(filePath, data) ==
    "Content of file '" \o filePath \o "':\n\n" \o data

\* The system messages of h, in order.
SystemMessages(h) == SelectSeq(h, LAMBDA m : m.Role = "system")
\* The other messages of h, in order.
OtherMessages(h) == SelectSeq(h, LAMBDA m : m.Role # "system")

\* A variant that keeps the oldest messages instead of the most recent ones.
FirstOf(msgs, maxMessages) == SubSeq(msgs, 1, maxMessages)

\* otherMessages[len(otherMessages)-maxMessages:]
LastOf(msgs, maxMessages) == SubSeq(msgs, Len(msgs) - maxMessages + 1, Len(msgs))

\* A variant of Trim that puts the recent messages before the system messages.
TrimRecentFirst(h, maxMessages) ==
    IF Len(h) <= TrimThreshold THEN h
    ELSE LET otherMessages == OtherMessages(h)
         IN (IF Len(otherMessages) > maxMessages
             THEN LastOf(otherMessages, maxMessages)
             ELSE otherMessages)
            \o SystemMessages(h)

\* History.Trim on the message list, for maxMessages >= 0.
Trim(h, maxMessages) ==
    IF Len(h) <= TrimThreshold THEN h
    ELSE LET otherMessages == OtherMessages(h)
         IN SystemMessages(h)
            \o (IF Len(otherMessages) > maxMessages
                THEN LastOf(otherMessages, maxMessages)
                ELSE otherMessages)

NoTokens ==
    [inputTokens |-> 0, outputTokens |-> 0, cachedTokens |-> 0,
     offPeakInputTokens |-> 0, offPeakOutputTokens |-> 0, offPeakCachedTokens |-> 0]

\* A variant whose window ends before 00:30.
IsOffPeakBefore0030(hour, minute) ==
    (hour = 16 /\ minute >= 30) \/ (hour > 16) \/ (hour = 0 /\ minute < 30)

\* isOffPeak of UpdateTokenUsage.
IsOffPeak(hour, minute) ==
    (hour = 16 /\ minute >= 30) \/ (hour > 16) \/ (hour = 0 /\ minute <= 30)

\* A variant that counts the usage twice.
UpdateTokenUsageTwice(t, i, o, c, hour, minute) ==
    [inputTokens |-> t.inputTokens + 2 * i,
     outputTokens |-> t.outputTokens + 2 * o,
     cachedTokens |-> t.cachedTokens + 2 * c,
     offPeakInputTokens |-> t.offPeakInputTokens,
     offPeakOutputTokens |-> t.offPeakOutputTokens,
     offPeakCachedTokens |-> t.offPeakCachedTokens]

\* A variant that leaves the totals alone in off-peak hours.
UpdateTokenUsageSplit(t, i, o, c, hour, minute) ==
    LET off == IsOffPeak(hour, minute)
    IN [inputTokens |-> t.inputTokens + (IF off THEN 0 ELSE i),
        outputTokens |-> t.outputTokens + (IF off THEN 0 ELSE o),
        cachedTokens |-> t.cachedTokens + (IF off THEN 0 ELSE c),
        offPeakInputTokens |-> t.offPeakInputTokens + (IF off THEN i ELSE 0),
        offPeakOutputTokens |-> t.offPeakOutputTokens + (IF off THEN o ELSE 0),
        offPeakCachedTokens |-> t.offPeakCachedTokens + (IF off THEN c ELSE 0)]

UpdateTokenUsage(t, i, o, c, hour, minute) ==
    LET off == IsOffPeak(hour, minute)
    IN [inputTokens |-> t.inputTokens + i,
        outputTokens |-> t.outputTokens + o,
        cachedTokens |-> t.cachedTokens + c,
        offPeakInputTokens |-> t.offPeakInputTokens + (IF off THEN i ELSE 0),
        offPeakOutputTokens |-> t.offPeakOutputTokens + (IF off THEN o ELSE 0),
        offPeakCachedTokens |-> t.offPeakCachedTokens + (IF off THEN c ELSE 0)]

\* The usage a response carries (PromptTokens, CompletionTokens; cached is 0).
Usage == [InputTokens |-> 2, OutputTokens |-> 1, CachedTokens |-> 0]
\* UTC times of day at which usage is recorded.
Clock == {<<16, 30>>, <<0, 31>>}

\* --------------------------------------------------------- tool executor
KnownFunctions ==
    {"read_file", "read_multiple_files", "create_file", "create_multiple_files", "edit_file"}

\* json.Unmarshal accepts the argument string (over the fragments of D0, D1).
ValidJSON(s) == s = "{}"

\* FileOperations.ExecuteFunction; io is whether the file operation succeeds.
ExecuteFunction(tc, io) ==
    IF ~ValidJSON(tc.Arguments) THEN [result |-> "", err |-> "parsing arguments"]
    ELSE IF tc.Name \notin KnownFunctions THEN [result |-> "", err |-> "unknown function"]
    ELSE IF io THEN [result |-> "Content of file", err |-> Nil]
    ELSE [result |-> "", err |-> "reading file"]

\* result, err := ExecuteFunction(toolCall); if err != nil { result = "Error: ..." }
ToolResult(tc, io) ==
    LET r == ExecuteFunction(tc, io)
    IN IF r.err # Nil THEN "Error: " \o r.err ELSE r.result

\* ------------------------------------------------------------------ state
VARIABLES
    state,               \* Model.state
    history,             \* History.messages
    tokens,              \* History token counters
    currentContent,      \* Model.currentContent
    accumulatedContent,  \* Model.accumulatedContent
    hasContent,          \* Model.hasContent
    isReasoning,         \* Model.isReasoning
    pendingToolCalls,    \* Model.pendingToolCalls
    streamEvents,        \* Model.streamEvents: a stream number, 0 for nil
    streamCtx,           \* Model.streamCtx / streamCancel: a call number, 0 for nil
    errors,              \* the error entries of Model.messages
    streams,             \* one record per CreateChatCompletionStream call
    cancelled,           \* the contexts streamCancel was called on
    cmds,                \* goroutines of commands and their results on the way to Update
    running,             \* FALSE once the program has quit
    nInputs,             \* lines submitted so far
    asmIn,               \* assembler alone: the deltas applied so far
    asmOut,              \* assembler alone: the tool-call list
    timeoutSeconds,      \* Config.API.TimeoutSeconds
    expired,             \* the calls whose timeout context reached its deadline
    delivered,           \* worker alone: per call, the events the caller has received
    maxHistoryMessages,  \* Config.UI.MaxHistoryMessages
    before,              \* History alone: the messages before the last Trim, or the
                         \* counters and the usage of the last UpdateTokenUsage
    histCalls,           \* History alone: Trim or UpdateTokenUsage calls so far
    now,                 \* History alone: UTC <<hour, minute>> of the last UpdateTokenUsage
    nAdds,               \* /add commands submitted so far
    sent,                \* controller alone: the events put on the event channels
    configMenuActive,    \* the config menu is shown and gets the keys
    configMenuIndex,     \* the selected option, from 0
    configOptions,       \* the CurrentValue of each option of the menu
    configMenuChanged,   \* a value was cycled since the menu was opened
    originalConfig,      \* the Config as it was when the menu was opened
    configFile,          \* what config.json holds
    textInput,           \* Model.textInput.Value()
    autocompleteActive,        \* Model.autocompleteActive
    autocompleteSuggestion,    \* Model.autocompleteSuggestion
    autocompleteMatches,       \* the names of Model.autocompleteMatches
    autocompleteSelectedIndex, \* Model.autocompleteSelectedIndex, from 0
    nKeys                \* keys pressed at the input line so far

ctlVars == <<state, history, tokens, currentContent, accumulatedContent, hasContent,
             isReasoning, pendingToolCalls, streamEvents, streamCtx, errors>>
sysVars == <<streams, cancelled, cmds, running, nInputs>>
asmVars == <<asmIn, asmOut>>
wrkVars == <<timeoutSeconds, expired, delivered>>
histVars == <<maxHistoryMessages, before, histCalls, now>>
addVars == <<nAdds>>
evtVars == <<sent>>
cfgVars == <<configMenuActive, configMenuIndex, configOptions, configMenuChanged,
             originalConfig, configFile>>
acVars == <<textInput, autocompleteActive, autocompleteSuggestion, autocompleteMatches,
            autocompleteSelectedIndex, nKeys>>
vars == <<ctlVars, sysVars, asmVars, wrkVars, histVars, addVars, evtVars, cfgVars, acVars>>

\* A command in flight: a goroutine (read, tools) or a message for Update.
Item(k, ch, ctx, ev, err, calls, i, ph, log) ==
    [k |-> k, ch |-> ch, ctx |-> ctx, ev |-> ev, err |-> err,
     calls |-> calls, i |-> i, ph |-> ph, log |-> log]

\* The goroutine of the command nextStreamMsg returns: it holds the channel and
\* the context the model had when the command was made.
ReadCmd(ch, ctx) == Item("read", ch, ctx, NoEvent, Nil, <<>>, 0, "", <<>>)
\* src: the channel the event was received from.
StreamMsg(ev, src) == Item("StreamMsg", src, 0, ev, Nil, <<>>, 0, "", <<>>)
StreamCompleteMsg(err) == Item("StreamCompleteMsg", 0, 0, NoEvent, err, <<>>, 0, "", <<>>)
ExecuteToolsMsg(calls) == Item("ExecuteToolsMsg", 0, 0, NoEvent, Nil, calls, 0, "", <<>>)
QuitMsg == Item("QuitMsg", 0, 0, NoEvent, Nil, <<>>, 0, "", <<>>)
\* The goroutine of handleExecuteTools: at calls[i], phase ph, having appended
\* the tool messages log so far.
ToolsCmd(calls, i, ph, log) == Item("tools", 0, 0, NoEvent, Nil, calls, i, ph, log)
\* The FollowUpMsg{} the goroutine returns; calls and log record its batch.
FollowUpMsg(calls, log) == Item("FollowUpMsg", 0, 0, NoEvent, Nil, calls, 0, "", log)

\* A variant in which the cancel function of the timeout context is never called.
NotReleased(timer) == timer

\* if cancel != nil { cancel() }: the timer after the call's cancel function ran.
Released(timer) == IF timer = "armed" THEN "released" ELSE timer

One(x) == SetToBag({x})
InFlight == BagToSet(cmds)

\* One record per call of CreateChatCompletionStream. ok: a channel was returned.
\* pc: where the worker is: in its loop ("recv"), or returned after io.EOF
\* ("eof"), after another Recv error ("error") or after usage ("usage"), with
\* the channel closed; "failed" when the call returned an error and no worker.
\* toolCalls: the worker's local. recvd: the responses Recv has returned.
\* user: the call came from startConversation, when History held base messages.
\* timer: the timeout context of the call: "none" when TimeoutSeconds <= 0,
\* "armed" from context.WithTimeout until its cancel function is called,
\* "released" after that.
\* request: the messages the call was given.
Stream(ok, user, base, request) ==
    [ok |-> ok, chan |-> <<>>, pc |-> IF ok THEN "recv" ELSE "failed",
     toolCalls |-> <<>>, recvd |-> <<>>, user |-> user, base |-> base,
     request |-> request,
     timer |-> IF timeoutSeconds > 0 THEN (IF ok THEN "armed" ELSE Released("armed"))
               ELSE "none"]

\* ctx.Err() of the context call s passes to the transport: the parent's
\* cancellation or the deadline, whichever came first (Expire does not fire on
\* a cancelled context).
CtxErr(s) ==
    IF s \in expired THEN "deadline exceeded"
    ELSE IF s \in cancelled THEN "canceled"
    ELSE Nil

\* The worker has returned: close(eventChan) has run.
Closed(w) == w.pc # "recv"

\* The fields of config.Config the menu's modelled options stand for.
Config(maxHistory, timeout) ==
    [max_history_messages |-> maxHistory, timeout_seconds |-> timeout]

\* Model.originalConfig before the menu was ever opened: the zero Config.
ZeroConfig == Config(0, 0)

InitModel ==
    /\ state = StateReady
    /\ tokens = NoTokens
    /\ currentContent = ""
    /\ accumulatedContent = ""
    /\ hasContent = FALSE
    /\ isReasoning = FALSE
    /\ pendingToolCalls = <<>>
    /\ streamEvents = 0
    /\ streamCtx = 0
    /\ errors = <<>>
    /\ streams = <<>>
    /\ cancelled = {}
    /\ cmds = EmptyBag
    /\ running = TRUE
    /\ nInputs = 0
    /\ asmIn = <<>>
    /\ asmOut = <<>>
    /\ expired = {}
    /\ delivered = <<>>
    /\ before = <<>>
    /\ histCalls = 0
    /\ now = <<0, 0>>
    /\ nAdds = 0
    /\ sent = <<>>
    /\ configMenuActive = FALSE
    /\ configMenuIndex = 0
    /\ configOptions = <<>>
    /\ configMenuChanged = FALSE
    /\ originalConfig = ZeroConfig
    /\ textInput = ""
    /\ autocompleteActive = FALSE
    /\ autocompleteSuggestion = ""
    /\ autocompleteMatches = <<>>
    /\ autocompleteSelectedIndex = 0
    /\ nKeys = 0

\* NewHistory: the system prompt alone.
NewHistory == <<SystemPrompt>>

\* The program started without a config.json: loadDefaults.
Init ==
    /\ InitModel
    /\ history = NewHistory
    /\ timeoutSeconds = DefaultTimeoutSeconds
    /\ maxHistoryMessages = DefaultMaxHistoryMessages
    /\ configFile = Config(maxHistoryMessages, timeoutSeconds)

\* ----------------------------------------------------------- stream worker
Running(s) == running /\ s \in DOMAIN streams /\ streams[s].pc = "recv"

\* One iteration of the worker loop in which Recv returns a response.
WorkerRecv(s) ==
    /\ Running(s)
    /\ \E c \in NextChunks(streams[s].recvd) :
         LET w == streams[s]
             tcs == ApplyDeltas(w.toolCalls, c.Deltas)
             evs == ChunkEvents(c, tcs)
         IN /\ Len(w.chan) + Len(evs) <= ChanCap
            /\ streams' = [streams EXCEPT ![s] =
                   [w EXCEPT !.chan = @ \o evs,
                             !.toolCalls = tcs,
                             !.recvd = Append(@, c),
                             !.pc = IF c.Usage THEN "usage" ELSE "recv",
                             !.timer = IF c.Usage THEN Released(@) ELSE @]]
    /\ UNCHANGED <<ctlVars, cancelled, cmds, running, nInputs, asmVars, wrkVars, histVars, addVars, evtVars, acVars, cfgVars>>

\* Recv returns io.EOF: the worker sends Done and returns (the channel closes).
WorkerEOF(s) ==
    /\ Running(s)
    /\ Len(streams[s].chan) < ChanCap
    /\ streams' = [streams EXCEPT ![s].chan = Append(@, DoneEvent(FALSE)),
                                  ![s].pc = "eof",
                                  ![s].timer = Released(@)]
    /\ UNCHANGED <<ctlVars, cancelled, cmds, running, nInputs, asmVars, wrkVars, histVars, addVars, evtVars, acVars, cfgVars>>

\* Recv returns another error: the worker sends Error and returns.
WorkerError(s) ==
    /\ Running(s)
    /\ Len(streams[s].chan) < ChanCap
    /\ \E e \in RecvErrors(CtxErr(s)) :
         streams' = [streams EXCEPT ![s].chan = Append(@, ErrorEvent(e)),
                                    ![s].pc = "error",
                                    ![s].timer = Released(@)]
    /\ UNCHANGED <<ctlVars, cancelled, cmds, running, nInputs, asmVars, wrkVars, histVars, addVars, evtVars, acVars, cfgVars>>

\* ------------------------------------------------------------- controller
\* The command m.nextStreamMsg() returns for the model's channel and context.
NextStreamMsg(ch, ctx) == IF ch = 0 THEN StreamCompleteMsg(Nil) ELSE ReadCmd(ch, ctx)

\* The select of the command's goroutine.
ReadStream(it) ==
    /\ running /\ it \in InFlight /\ it.k = "read"
    /\ \/ /\ it.ctx \in cancelled
          /\ cmds' = (cmds (-) One(it)) (+) One(StreamCompleteMsg("canceled"))
          /\ UNCHANGED streams
       \/ /\ streams[it.ch].chan # <<>>
          /\ cmds' = (cmds (-) One(it)) (+) One(StreamMsg(Head(streams[it.ch].chan), it.ch))
          /\ streams' = [streams EXCEPT ![it.ch].chan = Tail(@)]
       \/ /\ streams[it.ch].chan = <<>>
          /\ Closed(streams[it.ch])
          /\ cmds' = (cmds (-) One(it)) (+) One(StreamCompleteMsg(Nil))
          /\ UNCHANGED streams
    /\ UNCHANGED <<ctlVars, cancelled, running, nInputs, asmVars, wrkVars, histVars, addVars, evtVars, acVars, cfgVars>>

\* currentContent after finalizeCurrentMessage.
Finalized == ""

\* m.accumulatedContent += event.Content
Accumulate(acc, fragment) == acc \o fragment

\* A variant that also keeps the reasoning text of an event.
PersistentWithReasoning(ev) == ev.Content \o ev.ReasoningContent

\* The text of an event that handleStreamEvent adds to accumulatedContent: the
\* content of a Content event, nothing of any other event.
Persistent(ev) == IF ev.Type = "Content" THEN ev.Content ELSE ""

\* handleStreamEvent, cases Reasoning, Content and ToolCall.
HandleStreamEvent(it) ==
    LET ev == it.ev IN
    /\ running /\ it \in InFlight /\ it.k = "StreamMsg"
    /\ ev.Type \in {"Reasoning", "Content", "ToolCall"}
    /\ isReasoning' = CASE ev.Type = "Reasoning" -> TRUE
                        [] ev.Type = "Content" -> FALSE
                        [] OTHER -> isReasoning
    /\ currentContent' =
         CASE ev.Type = "Reasoning" -> currentContent \o ev.ReasoningContent
           [] ev.Type = "Content" ->
                (IF isReasoning THEN Finalized ELSE currentContent) \o ev.Content
           [] OTHER -> Finalized
    /\ accumulatedContent' = Accumulate(accumulatedContent, Persistent(ev))
    /\ hasContent' = (hasContent \/ ev.Type = "Content")
    /\ pendingToolCalls' = IF ev.Type = "ToolCall" THEN ev.ToolCalls ELSE pendingToolCalls
    /\ cmds' = (cmds (-) One(it)) (+) One(NextStreamMsg(streamEvents, streamCtx))
    /\ UNCHANGED <<state, history, tokens, streamEvents, streamCtx, errors,
                   streams, cancelled, running, nInputs, asmVars, wrkVars, histVars, addVars, evtVars, acVars, cfgVars>>

\* A variant that stores the assistant message only when content arrived.
StoresAssistantContentOnly(has, pending) == has

\* if m.hasContent || len(m.pendingToolCalls) > 0
StoresAssistant(has, pending) == has \/ Len(pending) > 0

\* The command handleStreamEvent returns on Done.
AfterDone(pending) ==
    IF Len(pending) > 0 THEN ExecuteToolsMsg(pending) ELSE StreamCompleteMsg(Nil)

\* handleStreamEvent, case Done.
HandleDone(it) ==
    /\ running /\ it \in InFlight /\ it.k = "StreamMsg"
    /\ it.ev.Type = "Done"
    /\ currentContent' = Finalized
    /\ history' = IF StoresAssistant(hasContent, pendingToolCalls)
                  THEN AddAssistantMessage(history, accumulatedContent, pendingToolCalls)
                  ELSE history
    /\ \E t \in Clock :
         tokens' = IF it.ev.Usage
                   THEN UpdateTokenUsage(tokens, Usage.InputTokens, Usage.OutputTokens,
                                         Usage.CachedTokens, t[1], t[2])
                   ELSE tokens
    /\ cmds' = (cmds (-) One(it)) (+) One(AfterDone(pendingToolCalls))
    /\ UNCHANGED <<state, accumulatedContent, hasContent, isReasoning, pendingToolCalls,
                   streamEvents, streamCtx, errors,
                   streams, cancelled, running, nInputs, asmVars, wrkVars, histVars, addVars, evtVars, acVars, cfgVars>>

\* handleStreamEvent, case Error.
HandleError(it) ==
    /\ running /\ it \in InFlight /\ it.k = "StreamMsg"
    /\ it.ev.Type = "Error"
    /\ cmds' = (cmds (-) One(it)) (+) One(StreamCompleteMsg(it.ev.Error))
    /\ UNCHANGED <<ctlVars, streams, cancelled, running, nInputs, asmVars, wrkVars, histVars, addVars, evtVars, acVars, cfgVars>>

\* Update, case StreamCompleteMsg.
UpdateStreamComplete(it) ==
    /\ running /\ it \in InFlight /\ it.k = "StreamCompleteMsg"
    /\ state' = StateReady
    /\ errors' = IF it.err # Nil THEN Append(errors, "Stream error: " \o it.err) ELSE errors
    /\ cmds' = cmds (-) One(it)
    /\ UNCHANGED <<history, tokens, currentContent, accumulatedContent, hasContent,
                   isReasoning, pendingToolCalls, streamEvents, streamCtx,
                   streams, cancelled, running, nInputs, asmVars, wrkVars, histVars, addVars, evtVars, acVars, cfgVars>>

\* Update, case ProcessCompleteMsg: the state it leaves.
AfterProcessComplete(st) == StateReady

\* Update, case ExecuteToolsMsg: handleExecuteTools starts the batch goroutine.
HandleExecuteTools(it) ==
    /\ running /\ it \in InFlight /\ it.k = "ExecuteToolsMsg"
    /\ state' = StateProcessing
    /\ cmds' = (cmds (-) One(it))
               (+) One(IF it.calls = <<>> THEN FollowUpMsg(<<>>, <<>>)
                       ELSE ToolsCmd(it.calls, 1, "announce", <<>>))
    /\ UNCHANGED <<history, tokens, currentContent, accumulatedContent, hasContent,
                   isReasoning, pendingToolCalls, streamEvents, streamCtx, errors,
                   streams, cancelled, running, nInputs, asmVars, wrkVars, histVars, addVars, evtVars, acVars, cfgVars>>

\* The batch goroutine sends ProcessCompleteMsg{"Executing: ..."} for calls[i]
\* (m.program is set by main), and Update handles it.
ToolsAnnounce(it) ==
    /\ running /\ it \in InFlight /\ it.k = "tools" /\ it.ph = "announce"
    /\ state' = AfterProcessComplete(state)
    /\ cmds' = (cmds (-) One(it)) (+) One(ToolsCmd(it.calls, it.i, "exec", it.log))
    /\ UNCHANGED <<history, tokens, currentContent, accumulatedContent, hasContent,
                   isReasoning, pendingToolCalls, streamEvents, streamCtx, errors,
                   streams, cancelled, running, nInputs, asmVars, wrkVars, histVars, addVars, evtVars, acVars, cfgVars>>

\* The tool message the batch goroutine appends for a call.
ToolMessage(tc, io) == Message("tool", ToolResult(tc, io), <<>>, tc.ID)

\* The batch goroutine executes calls[i] and appends its tool message.
ToolsExec(it) ==
    /\ running /\ it \in InFlight /\ it.k = "tools" /\ it.ph = "exec"
    /\ \E io \in BOOLEAN :
         LET msg == ToolMessage(it.calls[it.i], io)
         IN /\ history' = Append(history, msg)
            /\ cmds' = (cmds (-) One(it))
                       (+) One(ToolsCmd(it.calls, it.i, "report", Append(it.log, msg)))
    /\ UNCHANGED <<state, tokens, currentContent, accumulatedContent, hasContent,
                   isReasoning, pendingToolCalls, streamEvents, streamCtx, errors,
                   streams, cancelled, running, nInputs, asmVars, wrkVars, histVars, addVars, evtVars, acVars, cfgVars>>

\* A variant of ToolsNext that returns after the first call of the batch.
ToolsNextStop(calls, i, log) == FollowUpMsg(calls, log)

\* What the batch goroutine does after the call at index i of n.
ToolsNext(calls, i, log) ==
    IF i < Len(calls) THEN ToolsCmd(calls, i + 1, "announce", log)
    ELSE FollowUpMsg(calls, log)

\* The batch goroutine sends ProcessCompleteMsg{result}, Update handles it, and
\* the loop goes on or returns FollowUpMsg.
ToolsReport(it) ==
    /\ running /\ it \in InFlight /\ it.k = "tools" /\ it.ph = "report"
    /\ state' = AfterProcessComplete(state)
    /\ cmds' = (cmds (-) One(it)) (+) One(ToolsNext(it.calls, it.i, it.log))
    /\ UNCHANGED <<history, tokens, currentContent, accumulatedContent, hasContent,
                   isReasoning, pendingToolCalls, streamEvents, streamCtx, errors,
                   streams, cancelled, running, nInputs, asmVars, wrkVars, histVars, addVars, evtVars, acVars, cfgVars>>

\* The state a handler is left in when CreateChatCompletionStream returns an error.
AfterCreateFailed == StateError

\* The part startConversation and handleFollowUp share: reset, new context,
\* CreateChatCompletionStream, and the command returned. h is History as the
\* request sees it, user whether a user message was appended, what the error text.
OpenStream(rest, user, base, what, messages) ==
    LET n == Len(streams) + 1 IN
    /\ Len(streams) < MaxStreams
    /\ currentContent' = ""
    /\ isReasoning' = FALSE
    /\ pendingToolCalls' = <<>>
    /\ accumulatedContent' = ""
    /\ hasContent' = FALSE
    /\ streamCtx' = n
    /\ \/ /\ state' = StateStreaming
          /\ streams' = Append(streams, Stream(TRUE, user, base, messages))
          /\ streamEvents' = n
          /\ errors' = errors
          /\ cmds' = rest (+) One(NextStreamMsg(n, n))
       \/ /\ state' = AfterCreateFailed
          /\ streams' = Append(streams, Stream(FALSE, user, base, messages))
          /\ streamEvents' = streamEvents
          /\ errors' = Append(errors, what)
          /\ cmds' = rest

\* Update, case FollowUpMsg: handleFollowUp.
HandleFollowUp(it) ==
    /\ running /\ it \in InFlight /\ it.k = "FollowUpMsg"
    /\ OpenStream(cmds (-) One(it), FALSE, Len(history), "Failed to create follow-up stream",
                  GetMessages(history))
    /\ UNCHANGED <<history, tokens, cancelled, running, nInputs, asmVars, wrkVars, histVars, addVars, evtVars, acVars, cfgVars>>

\* The lines the user submits (after TrimSpace; not a command, not exit or quit).
Inputs == {"hi"}

\* handleKeyPress, Enter with a regular line: startConversation. (No key is
\* pressed between Ctrl+C and the end of the program.)
KeyEnter(input) ==
    /\ running /\ QuitMsg \notin InFlight /\ state = StateReady
    /\ ~configMenuActive
    /\ nInputs < MaxInputs
    /\ nInputs' = nInputs + 1
    /\ history' = AddUserMessage(history, input)
    /\ OpenStream(cmds, TRUE, Len(history), "Failed to create stream",
                  GetMessages(AddUserMessage(history, input)))
    /\ UNCHANGED <<tokens, cancelled, running, asmVars, wrkVars, histVars, addVars, evtVars, acVars, cfgVars>>

\* handleKeyPress, Enter with "/clear": handleCommand.
KeyEnterClear ==
    /\ running /\ QuitMsg \notin InFlight /\ state = StateReady
    /\ ~configMenuActive
    /\ nInputs < MaxInputs
    /\ nInputs' = nInputs + 1
    /\ history' = Clear(history)
    /\ tokens' = NoTokens
    /\ errors' = <<>>
    /\ UNCHANGED <<state, currentContent, accumulatedContent, hasContent, isReasoning,
                   pendingToolCalls, streamEvents, streamCtx,
                   streams, cancelled, cmds, running, asmVars, wrkVars, histVars, addVars, evtVars, acVars, cfgVars>>

\* The terminal event of stream s, Done or Error, has been handled by Update:
\* the worker has sent it and returned, and it is neither in the channel nor
\* in a message on its way to Update.
Terminated(s) ==
    /\ s \in DOMAIN streams /\ streams[s].ok /\ Closed(streams[s])
    /\ \A k \in DOMAIN streams[s].chan : streams[s].chan[k].Type \notin {"Done", "Error"}
    /\ \A it \in InFlight :
         ~(it.k = "StreamMsg" /\ it.ch = s /\ it.ev.Type \in {"Done", "Error"})

\* handleKeyPress, Ctrl+C: cancel the stream context, quit.
CtrlC ==
    /\ running /\ QuitMsg \notin InFlight
    /\ ~configMenuActive
    /\ cancelled' = IF streamCtx # 0 THEN cancelled \cup {streamCtx} ELSE cancelled
    /\ state' = StateQuitting
    /\ cmds' = cmds (+) One(QuitMsg)
    /\ UNCHANGED <<history, tokens, currentContent, accumulatedContent, hasContent,
                   isReasoning, pendingToolCalls, streamEvents, streamCtx, errors,
                   streams, running, nInputs, asmVars, wrkVars, histVars, addVars, evtVars, acVars, cfgVars>>

\* The result of tea.Quit reaches the event loop: the program ends.
Quit ==
    /\ running /\ QuitMsg \in InFlight
    /\ running' = FALSE
    /\ UNCHANGED <<ctlVars, streams, cancelled, cmds, nInputs, asmVars, wrkVars, histVars, addVars, evtVars, acVars, cfgVars>>

\* Ctrl+C in the runs Spec follows.
KeyCtrlC == Len(streams) <= MaxQuitStreams /\ CtrlC

Next ==
    \/ \E s \in DOMAIN streams : WorkerRecv(s)
    \/ \E s \in DOMAIN streams : WorkerEOF(s)
    \/ \E s \in DOMAIN streams : WorkerError(s)
    \/ \E it \in InFlight : ReadStream(it)
    \/ \E it \in InFlight : HandleStreamEvent(it)
    \/ \E it \in InFlight : HandleDone(it)
    \/ \E it \in InFlight : HandleError(it)
    \/ \E it \in InFlight : UpdateStreamComplete(it)
    \/ \E it \in InFlight : HandleExecuteTools(it)
    \/ \E it \in InFlight : ToolsAnnounce(it)
    \/ \E it \in InFlight : ToolsExec(it)
    \/ \E it \in InFlight : ToolsReport(it)
    \/ \E it \in InFlight : HandleFollowUp(it)
    \/ \E input \in Inputs : KeyEnter(input)
    \/ KeyEnterClear
    \/ KeyCtrlC
    \/ Quit

Spec == Init /\ [][Next]_vars

\* --------------------------------------------------- Ctrl+C after the stream
\* The program when Recv fails with io.EOF only, and the user never enters
\* /clear and presses Ctrl+C only in the last session of the run, once its
\* stream has finished and the worker of every earlier stream has returned.
KeyCtrlCAfterStream ==
    /\ streamCtx = MaxStreams /\ Terminated(streamCtx)
    /\ \A s \in DOMAIN streams : Closed(streams[s])
    /\ CtrlC

NextCancel ==
    \/ \E s \in DOMAIN streams : WorkerRecv(s)
    \/ \E s \in DOMAIN streams : WorkerEOF(s)
    \/ \E it \in InFlight : ReadStream(it)
    \/ \E it \in InFlight : HandleStreamEvent(it)
    \/ \E it \in InFlight : HandleDone(it)
    \/ \E it \in InFlight : UpdateStreamComplete(it)
    \/ \E it \in InFlight : HandleExecuteTools(it)
    \/ \E it \in InFlight : ToolsAnnounce(it)
    \/ \E it \in InFlight : ToolsExec(it)
    \/ \E it \in InFlight : ToolsReport(it)
    \/ \E it \in InFlight : HandleFollowUp(it)
    \/ \E input \in Inputs : KeyEnter(input)
    \/ KeyCtrlCAfterStream
    \/ Quit

SpecCancel == Init /\ [][NextCancel]_vars

\* ------------------------------------------------------------------ /add
\* The normalized paths of the files the user adds, and what a file holds.
Paths == {"/w/a.go"}
FileData == "package a"

\* The goroutine handleAddCommand returns, for a file: before the call of
\* FileAlreadyInContext (ph "check") or before ReadFileForContext (ph "read").
AddCmd(path, ph) ==
    Item("add", 0, 0, NoEvent, Nil, <<>>, 0, ph, <<>>) @@ [path |-> path]
\* The ProcessCompleteMsg a goroutine returns, with its Error.
ProcessCompleteMsg(err) == Item("ProcessCompleteMsg", 0, 0, NoEvent, err, <<>>, 0, "", <<>>)

\* handleKeyPress, Enter with "/add <path>": handleAddCommand.
KeyEnterAdd(path) ==
    /\ running /\ QuitMsg \notin InFlight /\ state = StateReady
    /\ ~configMenuActive
    /\ nAdds < MaxAdds
    /\ nAdds' = nAdds + 1
    /\ state' = StateProcessing
    /\ cmds' = cmds (+) One(AddCmd(path, "check"))
    /\ UNCHANGED <<history, tokens, currentContent, accumulatedContent, hasContent,
                   isReasoning, pendingToolCalls, streamEvents, streamCtx, errors,
                   streams, cancelled, running, nInputs, asmVars, wrkVars, histVars,
                   evtVars, acVars, cfgVars>>

\* The goroutine: NormalizePath and os.Stat (which may fail), then, in
\* addFileToContext, the call of FileAlreadyInContext.
AddCheck(it) ==
    /\ running /\ it \in InFlight /\ it.k = "add" /\ it.ph = "check"
    /\ \/ cmds' = (cmds (-) One(it)) (+) One(ProcessCompleteMsg("accessing path"))
       \/ cmds' = (cmds (-) One(it))
                  (+) One(IF FileAlreadyInContext(history, it.path)
                          THEN ProcessCompleteMsg(Nil)
                          ELSE AddCmd(it.path, "read"))
    /\ UNCHANGED <<ctlVars, streams, cancelled, running, nInputs, asmVars, wrkVars,
                   histVars, addVars, evtVars, acVars, cfgVars>>

\* The goroutine: ReadFileForContext (which may fail) and AddSystemMessage.
AddAppend(it) ==
    /\ running /\ it \in InFlight /\ it.k = "add" /\ it.ph = "read"
    /\ \/ /\ cmds' = (cmds (-) One(it)) (+) One(ProcessCompleteMsg("reading file"))
          /\ history' = history
       \/ /\ cmds' = (cmds (-) One(it)) (+) One(ProcessCompleteMsg(Nil))
          /\ history' = AddSystemMessage(history, ReadFileForContext(it.path, FileData))
    /\ UNCHANGED <<state, tokens, currentContent, accumulatedContent, hasContent,
                   isReasoning, pendingToolCalls, streamEvents, streamCtx, errors,
                   streams, cancelled, running, nInputs, asmVars, wrkVars, histVars,
                   addVars, evtVars, acVars, cfgVars>>

\* Update, case ProcessCompleteMsg, for the message a command's goroutine returned.
UpdateProcessComplete(it) ==
    /\ running /\ it \in InFlight /\ it.k = "ProcessCompleteMsg"
    /\ state' = AfterProcessComplete(state)
    /\ errors' = IF it.err # Nil THEN Append(errors, "Process error: " \o it.err) ELSE errors
    /\ cmds' = cmds (-) One(it)
    /\ UNCHANGED <<history, tokens, currentContent, accumulatedContent, hasContent,
                   isReasoning, pendingToolCalls, streamEvents, streamCtx,
                   streams, cancelled, running, nInputs, asmVars, wrkVars, histVars,
                   addVars, evtVars, acVars, cfgVars>>

\* The program when the user submits one line and /add commands.
NextAdd ==
    \/ \E s \in DOMAIN streams : WorkerRecv(s)
    \/ \E s \in DOMAIN streams : WorkerEOF(s)
    \/ \E s \in DOMAIN streams : WorkerError(s)
    \/ \E it \in InFlight : ReadStream(it)
    \/ \E it \in InFlight : HandleStreamEvent(it)
    \/ \E it \in InFlight : HandleDone(it)
    \/ \E it \in InFlight : HandleError(it)
    \/ \E it \in InFlight : UpdateStreamComplete(it)
    \/ \E it \in InFlight : HandleExecuteTools(it)
    \/ \E it \in InFlight : ToolsAnnounce(it)
    \/ \E it \in InFlight : ToolsExec(it)
    \/ \E it \in InFlight : ToolsReport(it)
    \/ \E it \in InFlight : HandleFollowUp(it)
    \/ \E input \in Inputs : nInputs = 0 /\ KeyEnter(input)
    \/ \E path \in Paths : KeyEnterAdd(path)
    \/ \E it \in InFlight : AddCheck(it)
    \/ \E it \in InFlight : AddAppend(it)
    \/ \E it \in InFlight : UpdateProcessComplete(it)

SpecAdd == Init /\ [][NextAdd]_vars

\* -------------------------------------------- controller alone, any events
\* The controller reads an event channel whose producer may send every kind of
\* api.StreamEvent, reasoning deltas included, and ends with one Done.
MaxEvents == 5

ReasoningText == "think"

ProducerEvents ==
    { Event("Reasoning", ReasoningText, <<>>, Nil, FALSE),
      ContentEvent("Hel"), ContentEvent("lo"), DoneEvent(FALSE) }

\* The producer of stream s sends one event; it closes the channel after Done.
SendEvent(s) ==
    /\ Running(s)
    /\ Len(sent) < MaxEvents
    /\ Len(streams[s].chan) < ChanCap
    /\ \E ev \in ProducerEvents :
         /\ sent' = Append(sent, ev)
         /\ streams' = [streams EXCEPT ![s].chan = Append(@, ev),
                                       ![s].pc = IF ev.Type = "Done" THEN "eof" ELSE @,
                                       ![s].timer = IF ev.Type = "Done" THEN Released(@) ELSE @]
    /\ UNCHANGED <<ctlVars, cancelled, cmds, running, nInputs, asmVars, wrkVars, histVars,
                   addVars, cfgVars, acVars>>

NextEvents ==
    \/ \E input \in Inputs : KeyEnter(input)
    \/ \E s \in 1..MaxStreams : SendEvent(s)
    \/ \E it \in InFlight :
         \/ ReadStream(it)
         \/ HandleStreamEvent(it)
         \/ HandleDone(it)
         \/ UpdateStreamComplete(it)

SpecEvents == Init /\ [][NextEvents]_vars

\* ------------------------------------------------------- assembler alone
\* The tool-call deltas fed to the assembler: an id with a name fragment, a name
\* fragment with an arguments fragment, an arguments fragment alone, an id
\* alone, each at indices 0..2, and one entry whose Index is nil.
AsmFragments == { <<"a", "f", "">>, <<"", "g", "x">>, <<"", "", "y">>, <<"b", "", "">> }

AsmDeltas ==
    { Delta(i, f[1], f[2], f[3]) : i \in 0..2, f \in AsmFragments }
    \cup { [HasIndex |-> FALSE, Index |-> 0, ID |-> "c", Name |-> "h", Arguments |-> "z"] }

\* The worker handles one more entry of delta.ToolCalls.
AsmStep ==
    /\ Len(asmIn) < MaxDeltas
    /\ \E d \in AsmDeltas :
         /\ asmIn' = Append(asmIn, d)
         /\ asmOut' = ApplyDelta(asmOut, d)
    /\ UNCHANGED <<ctlVars, sysVars, wrkVars, histVars, addVars, evtVars, acVars, cfgVars>>

SpecAsm == Init /\ [][AsmStep]_vars

\* ---------------------------------------------------------- worker alone
\* CreateChatCompletionStream calls when a caller drives the client directly.
\* timeout_seconds as config.json may give it: absent or 0, or the default.
TimeoutSettings == {0, DefaultTimeoutSeconds}

InitWorker ==
    /\ InitModel
    /\ history = NewHistory
    /\ timeoutSeconds \in TimeoutSettings
    /\ maxHistoryMessages = DefaultMaxHistoryMessages
    /\ configFile = Config(maxHistoryMessages, timeoutSeconds)

\* A caller calls CreateChatCompletionStream with a context of its own: the
\* transport is established (a channel is returned, the worker starts) or not.
CreateChatCompletionStream ==
    /\ running /\ Len(streams) < MaxWorkers
    /\ \E ok \in BOOLEAN : streams' = Append(streams, Stream(ok, FALSE, 0, GetMessages(history)))
    /\ delivered' = Append(delivered, <<>>)
    /\ UNCHANGED <<ctlVars, cancelled, cmds, running, nInputs, asmVars,
                   timeoutSeconds, expired, histVars, addVars, evtVars, acVars, cfgVars>>

\* The caller receives the next event of call s from the channel.
Receive(s) ==
    /\ running /\ s \in DOMAIN delivered
    /\ streams[s].chan # <<>>
    /\ delivered' = [delivered EXCEPT ![s] = Append(@, Head(streams[s].chan))]
    /\ streams' = [streams EXCEPT ![s].chan = Tail(@)]
    /\ UNCHANGED <<ctlVars, cancelled, cmds, running, nInputs, asmVars,
                   timeoutSeconds, expired, histVars, addVars, evtVars, acVars, cfgVars>>

\* The caller cancels the context it passed to call s.
CancelCtx(s) ==
    /\ running /\ s \in DOMAIN delivered
    /\ streams[s].ok /\ s \notin cancelled
    /\ cancelled' = cancelled \cup {s}
    /\ UNCHANGED <<ctlVars, streams, cmds, running, nInputs, asmVars, wrkVars, histVars, addVars, evtVars, acVars, cfgVars>>

\* The deadline of the timeout context of call s passes before the context
\* was cancelled or released.
Expire(s) ==
    /\ running /\ s \in DOMAIN delivered
    /\ streams[s].timer = "armed" /\ s \notin cancelled /\ s \notin expired
    /\ expired' = expired \cup {s}
    /\ UNCHANGED <<ctlVars, sysVars, asmVars, timeoutSeconds, delivered, histVars, addVars, evtVars, acVars, cfgVars>>

NextWorker ==
    \/ CreateChatCompletionStream
    \/ \E s \in DOMAIN streams : WorkerRecv(s)
    \/ \E s \in DOMAIN streams : WorkerEOF(s)
    \/ \E s \in DOMAIN streams : WorkerError(s)
    \/ \E s \in DOMAIN streams : Receive(s)
    \/ \E s \in DOMAIN streams : CancelCtx(s)
    \/ \E s \in DOMAIN streams : Expire(s)

SpecWorker == InitWorker /\ [][NextWorker]_vars

\* ------------------------------------------- worker alone, shared slices
\* A ToolCall event carries the worker's slice toolCalls itself: the list the
\* caller holds and the worker's list have one backing array, so an assignment
\* to toolCalls[index] after the send writes the caller's list as well, with no
\* synchronisation with the caller's reads. The upstream here goes on sending
\* deltas for the calls it announced; no response adds a call after the list
\* was sent, so the array is not reallocated while it is shared.
SharedScripts ==
    { << Chunk("", <<D0>>, TRUE, FALSE),
         Chunk("", <<Delta(0, "", "", "x")>>, FALSE, FALSE) >>,
      << Chunk("Hel", <<>>, FALSE, FALSE), Chunk("", <<D0, D1>>, TRUE, FALSE),
         Chunk("", <<Delta(1, "c3", "", "")>>, FALSE, FALSE) >> }

NextSharedChunks(recvd) ==
    { sc[Len(recvd) + 1] :
        sc \in { x \in SharedScripts :
                   Len(x) > Len(recvd) /\ SubSeq(x, 1, Len(recvd)) = recvd } }

\* What the holder of a slice of the worker's array reads once the array holds
\* arr: the new elements if the write is seen, else the old ones. A nil slice
\* has no array.
Aliased(list, arr, seen) ==
    IF seen /\ list # <<>> THEN SubSeq(arr, 1, Len(list)) ELSE list

AliasedEvents(evs, arr, seen) ==
    [k \in DOMAIN evs |-> [evs[k] EXCEPT !.ToolCalls = Aliased(@, arr, seen)]]

\* One iteration of the worker loop in which Recv returns a response: the
\* deltas are applied in place, which the events sent before may show or not,
\* in the channel and with the caller.
WorkerRecvShared(s) ==
    /\ Running(s) /\ s \in DOMAIN delivered
    /\ \E c \in NextSharedChunks(streams[s].recvd), seen \in BOOLEAN :
         LET w == streams[s]
             tcs == ApplyDeltas(w.toolCalls, c.Deltas)
             evs == ChunkEvents(c, tcs)
         IN /\ Len(w.chan) + Len(evs) <= ChanCap
            /\ streams' = [streams EXCEPT ![s] =
                   [w EXCEPT !.chan = AliasedEvents(@, tcs, seen) \o evs,
                             !.toolCalls = tcs,
                             !.recvd = Append(@, c),
                             !.pc = IF c.Usage THEN "usage" ELSE "recv",
                             !.timer = IF c.Usage THEN Released(@) ELSE @]]
            /\ delivered' = [delivered EXCEPT ![s] = AliasedEvents(@, tcs, seen)]
    /\ UNCHANGED <<ctlVars, cancelled, cmds, running, nInputs, asmVars,
                   timeoutSeconds, expired, histVars, addVars, evtVars, acVars, cfgVars>>

NextShared ==
    \/ CreateChatCompletionStream
    \/ \E s \in DOMAIN streams : WorkerRecvShared(s)
    \/ \E s \in DOMAIN streams : WorkerEOF(s)
    \/ \E s \in DOMAIN streams : WorkerError(s)
    \/ \E s \in DOMAIN streams : Receive(s)

SpecShared == InitWorker /\ [][NextShared]_vars

\* --------------------------------------------- worker alone, full channel
\* One call whose upstream sends content responses without end, and a caller
\* that reads as nextStreamMsg does until it cancels the context: its select
\* then returns on ctx.Done() and nothing reads the channel any more.
LongChunk == Chunk("x", <<>>, FALSE, FALSE)

\* One iteration of the worker loop in which Recv returns a content response:
\* the send blocks while the channel is full.
WorkerRecvLong(s) ==
    /\ Running(s)
    /\ Len(streams[s].recvd) < MaxResponses
    /\ Len(streams[s].chan) < ChanCap
    /\ streams' = [streams EXCEPT ![s].chan = @ \o ChunkEvents(LongChunk, <<>>),
                                  ![s].recvd = Append(@, LongChunk)]
    /\ UNCHANGED <<ctlVars, cancelled, cmds, running, nInputs, asmVars, wrkVars, histVars,
                   addVars, evtVars, acVars, cfgVars>>

NextFull ==
    \/ Len(streams) = 0 /\ CreateChatCompletionStream
    \/ \E s \in DOMAIN streams : WorkerRecvLong(s)
    \/ \E s \in DOMAIN streams : WorkerEOF(s)
    \/ \E s \in DOMAIN streams : WorkerError(s)
    \/ \E s \in DOMAIN streams : s \notin cancelled /\ Receive(s)
    \/ \E s \in DOMAIN streams : CancelCtx(s)
    \/ \E s \in DOMAIN streams : Expire(s)

SpecFull == InitWorker /\ [][NextFull]_vars

\* ----------------------------------------------------------- History alone
\* max_history_messages as the settings give it: absent from config.json (0),
\* the default, and values of the config menu below and above TrimThreshold.
MaxHistorySettings == {0, 10, DefaultMaxHistoryMessages, 30}

\* Positions, besides the first, at which a History may hold a system message
\* (AddSystemMessage appends one wherever the conversation stands).
SystemPositions == {2, 12, 22}

\* A History of n messages: the system prompt, then system messages at the
\* positions sys and user and assistant messages elsewhere; the content of
\* each message is its position.
HistoryOf(n, sys) ==
    [i \in 1..n |->
       IF i = 1 THEN SystemPrompt
       ELSE Message(IF i \in sys THEN "system"
                    ELSE IF i % 2 = 0 THEN "user" ELSE "assistant",
                    ToString(i), <<>>, "")]

Histories ==
    { HistoryOf(n, sys) : n \in 1..MaxMessages, sys \in SUBSET SystemPositions }

InitTrim ==
    /\ InitModel
    /\ history \in Histories
    /\ timeoutSeconds = DefaultTimeoutSeconds
    /\ maxHistoryMessages \in MaxHistorySettings
    /\ configFile = Config(maxHistoryMessages, timeoutSeconds)

\* h.Trim()
TrimStep ==
    /\ histCalls < MaxTrims
    /\ histCalls' = histCalls + 1
    /\ before' = history
    /\ history' = Trim(history, maxHistoryMessages)
    /\ UNCHANGED <<state, tokens, currentContent, accumulatedContent, hasContent,
                   isReasoning, pendingToolCalls, streamEvents, streamCtx, errors,
                   sysVars, asmVars, wrkVars, addVars, evtVars, acVars, cfgVars, maxHistoryMessages, now>>

SpecTrim == InitTrim /\ [][TrimStep]_vars

\* Histories of turns with tool calls: after the system prompt, a user message,
\* an assistant message with one tool call, the tool message that answers it
\* and the assistant's reply, again and again; system messages (/add) at the
\* positions sys, none of which is the place of a tool-call message.
ToolHistoryOf(n, sys) ==
    [i \in 1..n |->
       IF i = 1 THEN SystemPrompt
       ELSE IF i \in sys THEN Message("system", ToString(i), <<>>, "")
       ELSE IF i % 4 = 2 THEN Message("user", ToString(i), <<>>, "")
       ELSE IF i % 4 = 3
            THEN Message("assistant", "",
                         <<[ID |-> "c" \o ToString(i), Type |-> "function",
                            Name |-> "read_file", Arguments |-> "{}"]>>, "")
       ELSE IF i % 4 = 0 THEN Message("tool", "ok", <<>>, "c" \o ToString(i - 1))
       ELSE Message("assistant", ToString(i), <<>>, "")]

ToolHistories ==
    { ToolHistoryOf(n, sys) : n \in 1..MaxMessages, sys \in SUBSET SystemPositions }

InitToolTrim ==
    /\ InitModel
    /\ history \in ToolHistories
    /\ timeoutSeconds = DefaultTimeoutSeconds
    /\ maxHistoryMessages \in MaxHistorySettings
    /\ configFile = Config(maxHistoryMessages, timeoutSeconds)

SpecToolTrim == InitToolTrim /\ [][TrimStep]_vars

\* The usage UpdateTokenUsage is called with: three different positive counts,
\* so that the six counters can be told apart.
Usages == {[InputTokens |-> 3, OutputTokens |-> 2, CachedTokens |-> 1]}

\* The UTC hours and minutes of a day.
Hours == 0..23
Minutes == 0..59

\* h.UpdateTokenUsage(i, o, c) at hour:minute UTC.
RecordUsage ==
    /\ histCalls < MaxRecordings
    /\ histCalls' = histCalls + 1
    /\ \E hour \in Hours, minute \in Minutes, u \in Usages :
         /\ now' = <<hour, minute>>
         /\ before' = <<tokens, u>>
         /\ tokens' = UpdateTokenUsage(tokens, u.InputTokens, u.OutputTokens,
                                       u.CachedTokens, hour, minute)
    /\ UNCHANGED <<state, history, currentContent, accumulatedContent, hasContent,
                   isReasoning, pendingToolCalls, streamEvents, streamCtx, errors,
                   sysVars, asmVars, wrkVars, addVars, evtVars, acVars, cfgVars, maxHistoryMessages>>

SpecUsage == Init /\ [][RecordUsage]_vars

\* --------------------------------------------- History alone, any methods
\* The roles AddUserMessage, AddAssistantMessage, AddToolMessage and
\* AddSystemMessage append.
Roles == {"user", "assistant", "tool", "system"}

\* One of the Add methods; the content is the position of the new message.
HistoryAdd ==
    /\ histCalls < MaxHistoryCalls
    /\ histCalls' = histCalls + 1
    /\ \E role \in Roles :
         history' = AddMessage(history, role, ToString(Len(history) + 1), <<>>,
                               IF role = "tool" THEN "c1" ELSE "")
    /\ UNCHANGED <<state, tokens, currentContent, accumulatedContent, hasContent,
                   isReasoning, pendingToolCalls, streamEvents, streamCtx, errors,
                   sysVars, asmVars, wrkVars, addVars, evtVars, acVars, cfgVars, maxHistoryMessages, before, now>>

\* h.Trim()
HistoryTrim ==
    /\ histCalls < MaxHistoryCalls
    /\ histCalls' = histCalls + 1
    /\ history' = Trim(history, maxHistoryMessages)
    /\ UNCHANGED <<state, tokens, currentContent, accumulatedContent, hasContent,
                   isReasoning, pendingToolCalls, streamEvents, streamCtx, errors,
                   sysVars, asmVars, wrkVars, addVars, evtVars, acVars, cfgVars, maxHistoryMessages, before, now>>

\* h.UpdateTokenUsage(i, o, c) at an off-peak or a regular time.
HistoryUsage ==
    /\ histCalls < MaxHistoryCalls
    /\ histCalls' = histCalls + 1
    /\ \E t \in Clock, u \in Usages :
         /\ now' = t
         /\ tokens' = UpdateTokenUsage(tokens, u.InputTokens, u.OutputTokens,
                                       u.CachedTokens, t[1], t[2])
    /\ UNCHANGED <<state, history, currentContent, accumulatedContent, hasContent,
                   isReasoning, pendingToolCalls, streamEvents, streamCtx, errors,
                   sysVars, asmVars, wrkVars, addVars, evtVars, acVars, cfgVars, maxHistoryMessages, before>>

\* h.Clear()
HistoryClear ==
    /\ histCalls < MaxHistoryCalls
    /\ histCalls' = histCalls + 1
    /\ history' = Clear(history)
    /\ tokens' = NoTokens
    /\ UNCHANGED <<state, currentContent, accumulatedContent, hasContent,
                   isReasoning, pendingToolCalls, streamEvents, streamCtx, errors,
                   sysVars, asmVars, wrkVars, addVars, evtVars, acVars, cfgVars, maxHistoryMessages, before, now>>

NextHistory ==
    \/ HistoryAdd
    \/ HistoryTrim
    \/ HistoryUsage
    \/ HistoryClear

SpecHistory == InitTrim /\ [][NextHistory]_vars

\* ------------------------------------------------------------ config menu
\* The menu's options for the Config fields of the model, in the menu's order,
\* with the PossibleValues of each.
PossibleValues ==
    << <<"10", "15", "20", "30", "50">>, <<"120", "300", "600">> >>

StateConfigMenu == "ConfigMenu"

\* strconv.Itoa
Itoa(n) == ToString(n)

\* strconv.Atoi on the strings that occur: whether it returns no error, and
\* the number it returns then.
Numbers == {0, 10, 15, 20, 30, 50, 120, 300, 600}
AtoiOk(str) == \E n \in Numbers : ToString(n) = str
Atoi(str) == CHOOSE n \in Numbers : ToString(n) = str

\* currentIdx + 1 of the cycling loop: the position of current in values, 0
\* when it is not one of them.
PositionOf(values, current) ==
    IF \E k \in DOMAIN values : values[k] = current
    THEN CHOOSE k \in DOMAIN values :
           values[k] = current /\ \A j \in 1..(k - 1) : values[j] # current
    ELSE 0

\* A variant of NextValue that stays on the last value.
NextValueNoWrap(values, current) ==
    LET k == PositionOf(values, current)
    IN IF k < Len(values) THEN values[k + 1] ELSE values[Len(values)]

\* opt.PossibleValues[(currentIdx + 1) % len(opt.PossibleValues)]
NextValue(values, current) ==
    values[(PositionOf(values, current) % Len(values)) + 1]

\* applyConfigOption for every option: a field is set when Atoi succeeds.
Applied(cfg, options) ==
    Config(IF AtoiOk(options[1]) THEN Atoi(options[1]) ELSE cfg.max_history_messages,
           IF AtoiOk(options[2]) THEN Atoi(options[2]) ELSE cfg.timeout_seconds)

\* handleCommand, "/config": open the menu on the current Config.
KeyEnterConfig ==
    /\ running /\ QuitMsg \notin InFlight /\ state = StateReady
    /\ ~configMenuActive
    /\ configMenuActive' = TRUE
    /\ state' = StateConfigMenu
    /\ configMenuIndex' = 0
    /\ configMenuChanged' = FALSE
    /\ originalConfig' = Config(maxHistoryMessages, timeoutSeconds)
    /\ configOptions' = <<Itoa(maxHistoryMessages), Itoa(timeoutSeconds)>>
    /\ UNCHANGED <<history, tokens, currentContent, accumulatedContent, hasContent,
                   isReasoning, pendingToolCalls, streamEvents, streamCtx, errors,
                   sysVars, asmVars, wrkVars, histVars, addVars, evtVars, acVars, configFile>>

\* handleConfigMenuKeyPress, Esc: leave without saving.
MenuEsc ==
    /\ running /\ QuitMsg \notin InFlight /\ configMenuActive
    /\ configMenuActive' = FALSE
    /\ state' = StateReady
    /\ UNCHANGED <<history, tokens, currentContent, accumulatedContent, hasContent,
                   isReasoning, pendingToolCalls, streamEvents, streamCtx, errors,
                   sysVars, asmVars, wrkVars, histVars, addVars, evtVars, acVars,
                   configMenuIndex, configOptions, configMenuChanged, originalConfig,
                   configFile>>

\* handleConfigMenuKeyPress, Up and Down: move the selection, wrapping.
MenuUp ==
    /\ running /\ QuitMsg \notin InFlight /\ configMenuActive
    /\ configMenuIndex' = IF configMenuIndex > 0 THEN configMenuIndex - 1
                          ELSE Len(configOptions) - 1
    /\ UNCHANGED <<ctlVars, sysVars, asmVars, wrkVars, histVars, addVars, evtVars, acVars,
                   configMenuActive, configOptions, configMenuChanged, originalConfig,
                   configFile>>

MenuDown ==
    /\ running /\ QuitMsg \notin InFlight /\ configMenuActive
    /\ configMenuIndex' = IF configMenuIndex < Len(configOptions) - 1
                          THEN configMenuIndex + 1 ELSE 0
    /\ UNCHANGED <<ctlVars, sysVars, asmVars, wrkVars, histVars, addVars, evtVars, acVars,
                   configMenuActive, configOptions, configMenuChanged, originalConfig,
                   configFile>>

\* handleConfigMenuKeyPress, Space, Enter or Tab: cycle the selected option.
MenuCycle ==
    /\ running /\ QuitMsg \notin InFlight /\ configMenuActive
    /\ configMenuIndex < Len(configOptions)
    /\ configOptions' =
         [configOptions EXCEPT ![configMenuIndex + 1] =
            NextValue(PossibleValues[configMenuIndex + 1], @)]
    /\ configMenuChanged' = TRUE
    /\ UNCHANGED <<ctlVars, sysVars, asmVars, wrkVars, histVars, addVars, evtVars, acVars,
                   configMenuActive, configMenuIndex, originalConfig, configFile>>

\* handleConfigMenuKeyPress, q or Ctrl+S: saveConfigAndExit. Config.Save writes
\* config.json or fails.
MenuSave ==
    /\ running /\ QuitMsg \notin InFlight /\ configMenuActive
    /\ configMenuActive' = FALSE
    /\ state' = StateReady
    /\ LET cfg == Applied(Config(maxHistoryMessages, timeoutSeconds), configOptions)
       IN IF configMenuChanged
          THEN /\ maxHistoryMessages' = cfg.max_history_messages
               /\ timeoutSeconds' = cfg.timeout_seconds
               /\ \/ /\ configFile' = cfg
                     /\ UNCHANGED errors
                  \/ /\ Len(errors) < MaxSaveFailures
                     /\ errors' = Append(errors, "Failed to save config: writing config file")
                     /\ UNCHANGED configFile
          ELSE UNCHANGED <<maxHistoryMessages, timeoutSeconds, configFile, errors>>
    /\ UNCHANGED <<history, tokens, currentContent, accumulatedContent, hasContent,
                   isReasoning, pendingToolCalls, streamEvents, streamCtx,
                   sysVars, asmVars, expired, delivered, before, histCalls, now,
                   addVars, evtVars, acVars,
                   configMenuIndex, configOptions, configMenuChanged, originalConfig>>

\* config.json as Load may have read it: the defaults, or other values.
InitConfig ==
    /\ InitModel
    /\ history = NewHistory
    /\ timeoutSeconds \in TimeoutSettings
    /\ maxHistoryMessages \in MaxHistorySettings
    /\ configFile = Config(maxHistoryMessages, timeoutSeconds)

NextConfig ==
    \/ KeyEnterConfig
    \/ MenuEsc
    \/ MenuUp
    \/ MenuDown
    \/ MenuCycle
    \/ MenuSave

SpecConfig == InitConfig /\ [][NextConfig]_vars

\* ------------------------------------------------------------ autocomplete
\* The names of availableCommands, in their order.
availableCommands == <<"/add", "/clear", "/config", "/help", "/status", "/quit">>

\* The characters the user types, and the longest line typed.
Runes == {"/", "c", "C", "h"}
MaxInputLen == 3

\* strings.HasPrefix
HasPrefix(s, prefix) ==
    Len(prefix) <= Len(s) /\ SubSeq(s, 1, Len(prefix)) = prefix

\* strings.ToLower, over Runes.
RECURSIVE ToLower(_)
ToLower(s) ==
    IF s = "" THEN ""
    ELSE (IF SubSeq(s, 1, 1) = "C" THEN "c" ELSE SubSeq(s, 1, 1)) \o ToLower(Tail(s))

\* strings.TrimSpace
RECURSIVE TrimSpace(_)
TrimSpace(s) ==
    IF s = "" THEN ""
    ELSE IF SubSeq(s, 1, 1) = " " THEN TrimSpace(Tail(s))
    ELSE IF SubSeq(s, Len(s), Len(s)) = " " THEN TrimSpace(SubSeq(s, 1, Len(s) - 1))
    ELSE s

\* strings.SplitN(input, " ", 2)[0], lower-cased: the command of handleCommand.
RECURSIVE FirstWord(_)
FirstWord(s) ==
    IF s = "" \/ SubSeq(s, 1, 1) = " " THEN ""
    ELSE SubSeq(s, 1, 1) \o FirstWord(Tail(s))

\* The autocomplete fields updateAutocomplete leaves for the input value, given
\* the selected index before the call.
updateAutocomplete(value, index) ==
    LET lowerInput == ToLower(value)
        matches == SelectSeq(availableCommands,
                             LAMBDA name : HasPrefix(name, lowerInput) /\ name # lowerInput)
        selected == IF index >= Len(matches) THEN 0 ELSE index
    IN IF value = "" \/ ~HasPrefix(value, "/") \/ Len(matches) = 0
       THEN [active |-> FALSE, suggestion |-> "", matches |-> <<>>, index |-> 0]
       ELSE [active |-> TRUE, suggestion |-> matches[selected + 1],
             matches |-> matches, index |-> selected]

\* The autocomplete fields become those of a.
SetAutocomplete(a) ==
    /\ autocompleteActive' = a.active
    /\ autocompleteSuggestion' = a.suggestion
    /\ autocompleteMatches' = a.matches
    /\ autocompleteSelectedIndex' = a.index

\* handleKeyPress gets a key at the input line: the config menu is closed and
\* the program has not quit.
KeyPress ==
    /\ running /\ QuitMsg \notin InFlight
    /\ ~configMenuActive
    /\ nKeys < MaxKeys
    /\ nKeys' = nKeys + 1

\* What no key at the input line changes by itself.
KeyFrame ==
    UNCHANGED <<cancelled, running, asmVars, wrkVars, histVars, evtVars>>

\* A key that leaves the controller and the config menu alone.
InputOnly ==
    /\ KeyFrame
    /\ UNCHANGED <<state, history, tokens, currentContent, accumulatedContent,
                   hasContent, isReasoning, pendingToolCalls, streamEvents, streamCtx,
                   errors, streams, cmds, nInputs, addVars, cfgVars>>

\* The suggestion, with a space, replaces the input (Enter and Tab).
Fill ==
    /\ textInput' = autocompleteSuggestion \o " "
    /\ SetAutocomplete(updateAutocomplete(autocompleteSuggestion \o " ",
                                          autocompleteSelectedIndex))

\* The end of handleKeyPress, for a key the switch does not return from: in
\* StateReady the text input takes the key and updateAutocomplete runs.
TextInputUpdate(value) ==
    IF state = StateReady
    THEN /\ textInput' = value
         /\ SetAutocomplete(updateAutocomplete(value, autocompleteSelectedIndex))
    ELSE UNCHANGED <<textInput, autocompleteActive, autocompleteSuggestion,
                     autocompleteMatches, autocompleteSelectedIndex>>

\* A character is typed.
PressRune(r) ==
    /\ KeyPress /\ InputOnly
    /\ Len(textInput) < MaxInputLen
    /\ TextInputUpdate(textInput \o r)

\* Backspace.
PressBackspace ==
    /\ KeyPress /\ InputOnly
    /\ textInput # ""
    /\ TextInputUpdate(SubSeq(textInput, 1, Len(textInput) - 1))

\* Tab accepts the suggestion; without one the text input gets the key.
PressTab ==
    /\ KeyPress /\ InputOnly
    /\ IF state = StateReady /\ autocompleteActive /\ autocompleteSuggestion # ""
       THEN Fill
       ELSE TextInputUpdate(textInput)

\* Up and Down move the selection through the matches, wrapping; without
\* matches they scroll the viewport.
PressUp ==
    /\ KeyPress /\ InputOnly
    /\ UNCHANGED <<textInput, autocompleteActive, autocompleteMatches>>
    /\ IF state = StateReady /\ autocompleteActive /\ Len(autocompleteMatches) > 0
       THEN LET i == IF autocompleteSelectedIndex - 1 < 0
                     THEN Len(autocompleteMatches) - 1
                     ELSE autocompleteSelectedIndex - 1
            IN /\ autocompleteSelectedIndex' = i
               /\ autocompleteSuggestion' = autocompleteMatches[i + 1]
       ELSE UNCHANGED <<autocompleteSelectedIndex, autocompleteSuggestion>>

PressDown ==
    /\ KeyPress /\ InputOnly
    /\ UNCHANGED <<textInput, autocompleteActive, autocompleteMatches>>
    /\ IF state = StateReady /\ autocompleteActive /\ Len(autocompleteMatches) > 0
       THEN LET i == IF autocompleteSelectedIndex + 1 >= Len(autocompleteMatches)
                     THEN 0
                     ELSE autocompleteSelectedIndex + 1
            IN /\ autocompleteSelectedIndex' = i
               /\ autocompleteSuggestion' = autocompleteMatches[i + 1]
       ELSE UNCHANGED <<autocompleteSelectedIndex, autocompleteSuggestion>>

\* Esc cancels autocomplete; without it the text input gets the key.
PressEsc ==
    /\ KeyPress /\ InputOnly
    /\ IF state = StateReady /\ autocompleteActive
       THEN /\ SetAutocomplete([active |-> FALSE, suggestion |-> "",
                                matches |-> <<>>, index |-> 0])
            /\ UNCHANGED textInput
       ELSE TextInputUpdate(textInput)

\* What handleCommand and startConversation leave of the autocomplete fields.
NoAutocomplete ==
    UNCHANGED <<autocompleteActive, autocompleteSuggestion, autocompleteMatches,
                autocompleteSelectedIndex>>

\* parts[1] of strings.SplitN(input, " ", 2): what follows the first space.
RECURSIVE AfterSpace(_)
AfterSpace(s) ==
    IF s = "" THEN ""
    ELSE IF SubSeq(s, 1, 1) = " " THEN Tail(s)
    ELSE AfterSpace(Tail(s))

\* handleCommand(input)
handleCommand(input) ==
    LET command == ToLower(FirstWord(input))
        ui == <<currentContent, accumulatedContent, hasContent, isReasoning,
                pendingToolCalls, streamEvents, streamCtx, streams, nInputs>>
    IN /\ KeyFrame /\ NoAutocomplete
       /\ CASE command = "/add" /\ FirstWord(input) = input ->
                 /\ errors' = Append(errors, "Usage: /add <file or directory path>")
                 /\ UNCHANGED <<ui, state, cmds, history, tokens, addVars, cfgVars,
                                textInput>>
            [] command = "/add" /\ FirstWord(input) # input ->
                 /\ nAdds < MaxAdds
                 /\ nAdds' = nAdds + 1
                 /\ state' = StateProcessing
                 /\ cmds' = cmds (+) One(AddCmd(AfterSpace(input), "check"))
                 /\ textInput' = ""
                 /\ UNCHANGED <<ui, history, tokens, errors, cfgVars>>
            [] command = "/clear" ->
                 /\ history' = Clear(history)
                 /\ tokens' = NoTokens
                 /\ errors' = <<>>
                 /\ textInput' = ""
                 /\ UNCHANGED <<ui, state, cmds, addVars, cfgVars>>
            [] command \in {"/help", "/status"} ->
                 /\ textInput' = ""
                 /\ UNCHANGED <<ui, state, cmds, history, tokens, errors, addVars,
                                cfgVars>>
            [] command = "/config" ->
                 /\ configMenuActive' = TRUE
                 /\ state' = StateConfigMenu
                 /\ configMenuIndex' = 0
                 /\ configMenuChanged' = FALSE
                 /\ originalConfig' = Config(maxHistoryMessages, timeoutSeconds)
                 /\ configOptions' = <<Itoa(maxHistoryMessages), Itoa(timeoutSeconds)>>
                 /\ textInput' = ""
                 /\ UNCHANGED <<ui, cmds, history, tokens, errors, addVars, configFile>>
            [] command = "/quit" ->
                 /\ state' = StateQuitting
                 /\ cmds' = cmds (+) One(QuitMsg)
                 /\ UNCHANGED <<ui, history, tokens, errors, addVars, cfgVars, textInput>>
            [] OTHER ->
                 /\ errors' = Append(errors, "Unknown command: " \o command)
                 /\ textInput' = ""
                 /\ UNCHANGED <<ui, state, cmds, history, tokens, addVars, cfgVars>>

\* Enter at the input line: in StateReady it fills the suggestion in, or
\* submits the line (a command, or a turn of the conversation); in any other
\* state nothing happens.
PressEnter ==
    /\ KeyPress
    /\ LET input == TrimSpace(textInput)
       IN IF state # StateReady THEN InputOnly /\ NoAutocomplete /\ UNCHANGED textInput
          ELSE IF autocompleteActive /\ autocompleteSuggestion # ""
          THEN InputOnly /\ Fill
          ELSE IF input = "" THEN InputOnly /\ NoAutocomplete /\ UNCHANGED textInput
          ELSE IF HasPrefix(input, "/") THEN handleCommand(input)
          ELSE IF input \in {"exit", "quit"}
          THEN /\ state' = StateQuitting
               /\ cmds' = cmds (+) One(QuitMsg)
               /\ KeyFrame /\ NoAutocomplete
               /\ UNCHANGED <<history, tokens, currentContent, accumulatedContent,
                              hasContent, isReasoning, pendingToolCalls, streamEvents,
                              streamCtx, errors, streams, nInputs, addVars, cfgVars,
                              textInput>>
          ELSE /\ nInputs < MaxTyped
               /\ nInputs' = nInputs + 1
               /\ history' = AddUserMessage(history, input)
               /\ OpenStream(cmds, TRUE, Len(history), "Failed to create stream",
                             GetMessages(AddUserMessage(history, input)))
               /\ textInput' = ""
               /\ KeyFrame /\ NoAutocomplete /\ UNCHANGED <<tokens, addVars, cfgVars>>

\* The program with the keys of the input line, when Recv fails with io.EOF
\* only and at most MaxTyped lines start a turn.
NextKeys ==
    \/ \E s \in DOMAIN streams : WorkerRecv(s)
    \/ \E s \in DOMAIN streams : WorkerEOF(s)
    \/ \E it \in InFlight : ReadStream(it)
    \/ \E it \in InFlight : HandleStreamEvent(it)
    \/ \E it \in InFlight : HandleDone(it)
    \/ \E it \in InFlight : UpdateStreamComplete(it)
    \/ \E it \in InFlight : HandleExecuteTools(it)
    \/ \E it \in InFlight : ToolsAnnounce(it)
    \/ \E it \in InFlight : ToolsExec(it)
    \/ \E it \in InFlight : ToolsReport(it)
    \/ \E it \in InFlight : HandleFollowUp(it)
    \/ \E r \in Runes : PressRune(r)
    \/ PressBackspace
    \/ PressTab
    \/ PressUp
    \/ PressDown
    \/ PressEsc
    \/ PressEnter
    \/ Quit

SpecKeys == Init /\ [][NextKeys]_vars

\* ------------------------------------------------------------ properties
\* The content fragments of the responses recvd, concatenated in order.
RECURSIVE Contents(_)
Contents(recvd) ==
    IF recvd = <<>> THEN "" ELSE Head(recvd).Content \o Contents(Tail(recvd))

\* The responses carried content and no tool-call delta.
ContentOnly(recvd) ==
    Contents(recvd) # "" /\ \A k \in DOMAIN recvd : recvd[k].Deltas = <<>>

\* Update has handled the Done event of stream s.
DoneHandled(s) ==
    /\ streams[s].pc \in {"eof", "usage"}
    /\ \A k \in DOMAIN streams[s].chan : streams[s].chan[k].Type # "Done"
    /\ \A it \in InFlight : ~(it.k = "StreamMsg" /\ it.ch = s /\ it.ev.Type = "Done")

\* Update has handled the Error event of stream s.
ErrorHandled(s) ==
    /\ s \in DOMAIN streams
    /\ streams[s].pc = "error"
    /\ \A k \in DOMAIN streams[s].chan : streams[s].chan[k].Type # "Error"
    /\ \A it \in InFlight : ~(it.k = "StreamMsg" /\ it.ch = s /\ it.ev.Type = "Error")

\* The worker of stream s sent a tool-call event carrying calls.
SentToolCalls(s, calls) ==
    /\ streams[s].toolCalls = calls
    /\ \E k \in DOMAIN streams[s].recvd : streams[s].recvd[k].Finish

\* C1: when Update handles the Done of a stream that startConversation opened
\* and that delivered only content, History is then what it was before the turn
\* plus exactly two messages: the user message, and one assistant message whose
\* content is the concatenation of the fragments and that carries no tool calls.
C1_ContentOnlyTurn ==
    [][\A it \in InFlight :
         (HandleDone(it) /\ streams[it.ch].user /\ ContentOnly(streams[it.ch].recvd))
           => LET b == streams[it.ch].base
              IN /\ Len(history') = b + 2
                 /\ history'[b + 1].Role = "user"
                 /\ history'[b + 2] =
                      Message("assistant", Contents(streams[it.ch].recvd), <<>>, "")]_vars

\* The error texts a failing call leaves as the content of its tool message.
ErrorTexts ==
    { "Error: " \o e : e \in {"parsing arguments", "unknown function", "reading file"} }

\* The call fails whatever the file system does.
MustFail(tc) == ~ValidJSON(tc.Arguments) \/ tc.Name \notin KnownFunctions

\* The messages log are the tool messages of the first Len(log) of calls, in order.
BatchLog(calls, log) ==
    /\ Len(log) <= Len(calls)
    /\ \A j \in DOMAIN log :
         /\ log[j].Role = "tool"
         /\ log[j].ToolCallID = calls[j].ID
         /\ log[j].Content \in ErrorTexts \cup {"Content of file"}
         /\ MustFail(calls[j]) => log[j].Content \in ErrorTexts

\* C2: the batch goroutine of handleExecuteTools appends one tool message per
\* call, in list order, the i-th with the id of the i-th call; a failing call
\* leaves error text and the later calls still run: when the goroutine returns
\* FollowUpMsg it has appended exactly as many tool messages as there are calls.
C2_ToolBatch ==
    \A it \in InFlight :
      /\ it.k = "tools"
           => /\ it.i \in 1..Len(it.calls)
              /\ Len(it.log) = (IF it.ph = "report" THEN it.i ELSE it.i - 1)
              /\ BatchLog(it.calls, it.log)
      /\ it.k = "FollowUpMsg"
           => /\ Len(it.log) = Len(it.calls)
              /\ BatchLog(it.calls, it.log)

\* C2: a batch of two calls has returned; the first call failed in the file
\* system, the second was unknown, and both have their tool message.
C2_Witness ==
    \E it \in InFlight :
      /\ it.k = "FollowUpMsg"
      /\ Len(it.calls) = 2
      /\ it.log[1] = Message("tool", "Error: reading file", <<>>, "c1")
      /\ it.log[2] = Message("tool", "Error: unknown function", <<>>, "c2")

\* C3: once streamCancel was called on a stream's context, handling that
\* stream's Done event adds nothing to History.
C3_CancelDiscards ==
    [][\A it \in InFlight :
         (HandleDone(it) /\ it.ch \in cancelled) => history' = history]_vars

\* C4: handling an Error event writes nothing to History and returns the error
\* as a StreamCompleteMsg; handling that message sets StateReady and adds an
\* error entry for display; and once the Error event of the latest stream has
\* been handled, no Done event commits the buffers to History.
C4_ErrorNotCommitted ==
    [][\A it \in InFlight :
         /\ HandleError(it)
              => /\ history' = history
                 /\ StreamCompleteMsg(it.ev.Error) \in BagToSet(cmds')
         /\ (UpdateStreamComplete(it) /\ it.err # Nil)
              => /\ state' = StateReady
                 /\ Len(errors') = Len(errors) + 1
                 /\ history' = history
         /\ (HandleDone(it) /\ ErrorHandled(streamCtx))
              => history' = history]_vars

\* C5: when the last call of CreateChatCompletionStream failed synchronously
\* and nothing is in flight, the controller is in StateReady (where Enter
\* starts a new turn).
C5_ReadyAfterCreateFailure ==
    (running /\ cmds = EmptyBag /\ streams # <<>> /\ ~streams[Len(streams)].ok)
      => state = StateReady

\* The commands and messages of a turn that has not ended.
TurnKinds == {"read", "StreamMsg", "ExecuteToolsMsg", "tools", "FollowUpMsg"}

\* C6: while a turn is under way (a stream read, a stream event, a tool batch
\* or a follow-up is in flight) the state is not StateReady, and at most one
\* stream is being read.
C6_OneSession ==
    /\ (\E it \in InFlight : it.k \in TurnKinds) => state # StateReady
    /\ \A a, b \in InFlight :
         (a.k \in {"read", "StreamMsg"} /\ b.k \in {"read", "StreamMsg"})
           => (a = b /\ CopiesIn(a, cmds) = 1)

\* The indices the deltas ds address.
Indices(ds) == { ds[k].Index : k \in { j \in DOMAIN ds : ds[j].HasIndex } }

\* The name fragments ds carry for index i, concatenated in arrival order.
RECURSIVE NamesFor(_, _)
NamesFor(ds, i) ==
    IF ds = <<>> THEN ""
    ELSE (IF Head(ds).HasIndex /\ Head(ds).Index = i THEN Head(ds).Name ELSE "")
         \o NamesFor(Tail(ds), i)

\* The arguments fragments ds carry for index i, concatenated in arrival order.
RECURSIVE ArgsFor(_, _)
ArgsFor(ds, i) ==
    IF ds = <<>> THEN ""
    ELSE (IF Head(ds).HasIndex /\ Head(ds).Index = i THEN Head(ds).Arguments ELSE "")
         \o ArgsFor(Tail(ds), i)

\* C7: the assembled list has length (largest index addressed + 1), every
\* record has type "function", the name and arguments of the record at index i
\* are the concatenations in arrival order of the fragments received for i, and
\* a record whose index was never addressed is the empty placeholder.
C7_Assembled ==
    LET idx == Indices(asmIn)
    IN /\ Len(asmOut) =
            IF idx = {} THEN 0 ELSE (CHOOSE m \in idx : \A x \in idx : x <= m) + 1
       /\ \A k \in DOMAIN asmOut :
            /\ asmOut[k].Type = "function"
            /\ asmOut[k].Name = NamesFor(asmIn, k - 1)
            /\ asmOut[k].Arguments = ArgsFor(asmIn, k - 1)
            /\ (k - 1) \notin idx => asmOut[k] = EmptyToolCall

\* C7: index 0 received two name fragments, index 2 was addressed, index 1 was not.
C7_Witness ==
    /\ Len(asmOut) = 3
    /\ asmOut[1].Name = "fg"
    /\ asmOut[2] = EmptyToolCall
    /\ asmOut[3].Arguments = "y"

\* C8: when Update handles the Done of a stream whose only response carried
\* the fragments of one tool call (index 0, id, name, arguments), it goes on to
\* tool execution with exactly that call pending.
C8_FragmentsThenDone ==
    [][\A it \in InFlight :
         (HandleDone(it) /\ streams[it.ch].recvd = << Chunk("", <<D0>>, FALSE, FALSE) >>)
           => ExecuteToolsMsg(<< [ID |-> "c1", Type |-> "function",
                                  Name |-> "read_file", Arguments |-> "{}"] >>)
                \in BagToSet(cmds')]_vars

\* C9: every tool message of History has a non-empty ToolCallID that is the ID
\* of a tool call of an assistant message earlier in History.
C9_ToolMessagesReferenceCalls ==
    \A k \in DOMAIN history :
      history[k].Role = "tool"
        => /\ history[k].ToolCallID # ""
           /\ \E j \in 1..(k - 1) :
                /\ history[j].Role = "assistant"
                /\ \E c \in DOMAIN history[j].ToolCalls :
                     history[j].ToolCalls[c].ID = history[k].ToolCallID

\* C10: a tool call is executed only after Update has handled the Done event of
\* the stream that sent it.
C10_ExecuteAfterOwnDone ==
    [][\A it \in InFlight :
         ToolsExec(it)
           => \E s \in DOMAIN streams :
                SentToolCalls(s, it.calls) /\ DoneHandled(s)]_vars

\* C11: handling Done appends an assistant message to History exactly when
\* content arrived or tool calls are pending, and then exactly one, holding the
\* accumulated content and the complete pending list; with neither, History is
\* unchanged; with tool calls and no content the message's content is empty.
C11_DoneStoresAssistant ==
    [][\A it \in InFlight :
         HandleDone(it) =>
           /\ (hasContent \/ pendingToolCalls # <<>>)
                => history' = Append(history, Message("assistant", accumulatedContent,
                                                       pendingToolCalls, ""))
           /\ (~hasContent /\ pendingToolCalls = <<>>) => history' = history
           /\ (~hasContent /\ pendingToolCalls # <<>>)
                => /\ history'[Len(history')].Content = ""
                   /\ history'[Len(history')].ToolCalls = pendingToolCalls]_vars

\* C11: Done was handled for a stream that sent tool calls and no content: the
\* last message of History is an assistant message with empty content and the
\* two pending calls, and the batch is about to be executed.
C11_Witness ==
    /\ ~hasContent
    /\ Len(pendingToolCalls) = 2
    /\ history[Len(history)] = Message("assistant", "", pendingToolCalls, "")
    /\ ExecuteToolsMsg(pendingToolCalls) \in InFlight

\* C12: from the Done of a stream with pending tool calls until the follow-up
\* stream is opened (the batch is queued, running, or has returned FollowUpMsg)
\* the controller is never in StateReady. Only one stream has been opened, so
\* no other turn has touched the state.
C12_NoReadyDuringBatch ==
    \A it \in InFlight :
      (Len(streams) = 1 /\ it.k \in {"ExecuteToolsMsg", "tools", "FollowUpMsg"})
        => state # StateReady

\* The events the worker loop sends for the responses recvd, in the order Recv
\* returned them, starting from the tool-call list toolCalls.
RECURSIVE EventsFrom(_, _)
EventsFrom(recvd, toolCalls) ==
    IF recvd = <<>> THEN <<>>
    ELSE LET tcs == ApplyDeltas(toolCalls, Head(recvd).Deltas)
         IN ChunkEvents(Head(recvd), tcs) \o EventsFrom(Tail(recvd), tcs)

\* All events call s has put on its channel so far: received ones, then queued.
Emitted(s) == delivered[s] \o streams[s].chan

Terminal(ev) == ev.Type \in {"Done", "Error"}

\* C13: the events of a successful call are the events of the responses, in
\* the order the transport returned them, followed, once the worker has returned
\* after io.EOF or an error, by one Done or Error event; a terminal event is in
\* the sequence exactly when the channel is closed, and then there is exactly
\* one and it is the last event.
C13_OneTerminalLast ==
    \A s \in DOMAIN delivered :
      streams[s].ok =>
        LET w == streams[s]
            em == Emitted(s)
            body == EventsFrom(w.recvd, <<>>)
        IN /\ Len(em) = Len(body) + (IF w.pc \in {"eof", "error"} THEN 1 ELSE 0)
           /\ SubSeq(em, 1, Len(body)) = body
           /\ \A i \in DOMAIN em : Terminal(em[i]) <=> (Closed(w) /\ i = Len(em))
           /\ Closed(w) => em # <<>>
           /\ w.pc = "eof" => em[Len(em)].Type = "Done"
           /\ w.pc = "error" => em[Len(em)].Type = "Error"

\* C13: a call whose transport failed after two content responses: the caller
\* has received Content, Content, Error and the closed channel is empty.
C13_Witness ==
    \E s \in DOMAIN delivered :
      /\ streams[s].pc = "error" /\ streams[s].chan = <<>>
      /\ Len(delivered[s]) = 3
      /\ delivered[s][1] = ContentEvent("Hel")
      /\ delivered[s][2] = ContentEvent("lo")
      /\ delivered[s][3].Type = "Error"

\* C14: when the worker has sent Done and returned without io.EOF (after a
\* response carrying usage) on a call whose context is neither cancelled nor
\* past its deadline, the upstream has no further response to deliver.
C14_DoneAfterDrain ==
    \A s \in DOMAIN delivered :
      (streams[s].pc = "usage" /\ CtxErr(s) = Nil)
        => NextChunks(streams[s].recvd) = {}

\* C15: every successful call runs under a timeout context.
C15_TimeoutApplied ==
    \A s \in DOMAIN delivered : streams[s].ok => streams[s].timer # "none"

\* C16: a call that could not establish the transport has no channel content,
\* no worker and no event, received or queued, at any later time, and its
\* timeout context is not left armed.
C16_FailedCallIsInert ==
    \A s \in DOMAIN delivered :
      ~streams[s].ok =>
        /\ streams[s].pc = "failed" /\ ~Running(s)
        /\ streams[s].recvd = <<>>
        /\ Emitted(s) = <<>>
        /\ streams[s].timer # "armed"
        /\ s \notin expired

\* C16: the first call failed under a configured timeout, which was released;
\* the second call succeeded afterwards and its worker has delivered events.
C16_Witness ==
    /\ Len(streams) = 2 /\ timeoutSeconds > 0
    /\ ~streams[1].ok /\ streams[1].timer = "released"
    /\ streams[2].ok /\ Closed(streams[2]) /\ Len(delivered[2]) >= 2

\* C17: Trim keeps every system message the list held before it, and a second
\* Trim with no append in between leaves the list as the first Trim left it.
C17_TrimIdempotent ==
    /\ histCalls >= 1 =>
         \A i \in DOMAIN before :
           before[i].Role = "system" => \E j \in DOMAIN history : history[j] = before[i]
    /\ histCalls >= 2 => history = before

\* C17: Trim ran twice on 24 messages with a limit of 30: the first call moved
\* the system messages of positions 12 and 22 to the front, and the second,
\* again on more than TrimThreshold messages, changed nothing.
C17_Witness ==
    /\ histCalls = 2 /\ maxHistoryMessages = 30
    /\ Len(history) = 24 /\ history = before
    /\ history[2].Content = "12" /\ history[3].Content = "22"

\* The positions of h holding a system message, and the others.
SystemAt(h) == {i \in DOMAIN h : h[i].Role = "system"}
OtherAt(h) == DOMAIN h \ SystemAt(h)

\* The j-th smallest member of the set of numbers S.
Nth(S, j) == CHOOSE x \in S : Cardinality({y \in S : y < x}) = j - 1

Min(a, b) == IF a <= b THEN a ELSE b

\* C18: Trim returns a list of at most TrimThreshold messages unchanged;
\* otherwise the result holds the list's system messages in their order,
\* followed by the last min(k, maxHistoryMessages) of its k other messages in
\* their order, and so at most maxHistoryMessages messages that are not system
\* messages.
C18_TrimResult ==
    histCalls >= 1 =>
      IF Len(before) <= 20 THEN history = before
      ELSE LET ns == Cardinality(SystemAt(before))
               k == Cardinality(OtherAt(before))
               keep == Min(k, maxHistoryMessages)
           IN /\ Len(history) = ns + keep
              /\ \A j \in 1..ns : history[j] = before[Nth(SystemAt(before), j)]
              /\ \A j \in 1..keep :
                   history[ns + j] = before[Nth(OtherAt(before), k - keep + j)]
              /\ Cardinality(OtherAt(history)) <= maxHistoryMessages

\* C18: Trim ran on 24 messages, two of them system messages, with the default
\* limit: the result is the two system messages and the last 15 of the 22
\* others, positions 9 to 24 without 12.
C18_Witness ==
    /\ histCalls = 1 /\ maxHistoryMessages = DefaultMaxHistoryMessages
    /\ Len(before) = 24 /\ Len(history) = 17
    /\ history[1] = SystemPrompt /\ history[2].Content = "12"
    /\ history[3].Content = "9" /\ history[17].Content = "24"

\* The last UpdateTokenUsage added its usage to the off-peak counters.
CountedOffPeak ==
    /\ tokens.offPeakInputTokens = before[1].offPeakInputTokens + before[2].InputTokens
    /\ tokens.offPeakOutputTokens = before[1].offPeakOutputTokens + before[2].OutputTokens
    /\ tokens.offPeakCachedTokens = before[1].offPeakCachedTokens + before[2].CachedTokens

\* The last UpdateTokenUsage left the off-peak counters as they were.
CountedRegular ==
    /\ tokens.offPeakInputTokens = before[1].offPeakInputTokens
    /\ tokens.offPeakOutputTokens = before[1].offPeakOutputTokens
    /\ tokens.offPeakCachedTokens = before[1].offPeakCachedTokens

\* C19: UpdateTokenUsage always adds the usage to the total counters, and adds
\* it to the off-peak counters exactly when, at the UTC time of the call,
\* hour = 16 and minute >= 30, or hour > 16, or hour = 0 and minute <= 30;
\* otherwise the off-peak counters are unchanged. So 16:30 and 00:30 count as
\* off-peak, 16:29 and 00:31 as regular.
C19_OffPeakClassification ==
    histCalls >= 1 =>
      LET hour == now[1]
          minute == now[2]
          off == (hour = 16 /\ minute >= 30) \/ hour > 16 \/ (hour = 0 /\ minute <= 30)
      IN /\ tokens.inputTokens = before[1].inputTokens + before[2].InputTokens
         /\ tokens.outputTokens = before[1].outputTokens + before[2].OutputTokens
         /\ tokens.cachedTokens = before[1].cachedTokens + before[2].CachedTokens
         /\ off => CountedOffPeak
         /\ ~off => CountedRegular
         /\ now \in {<<16, 30>>, <<0, 30>>} => CountedOffPeak
         /\ now \in {<<16, 29>>, <<0, 31>>} => CountedRegular

\* C19: usage recorded at 00:30 UTC was added to the off-peak counters.
C19_Witness ==
    /\ histCalls = 1 /\ now = <<0, 30>>
    /\ tokens.inputTokens = 3 /\ tokens.offPeakInputTokens = 3
    /\ tokens.offPeakOutputTokens = 2 /\ tokens.offPeakCachedTokens = 1

UsageEvents(w) ==
    LET evs == EventsFrom(w.recvd, <<>>)
    IN {i \in DOMAIN evs : evs[i].Usage}

\* C21: handling a Done event that carries usage (i, o, c) adds exactly
\* (i, o, c) to the total counters; handling a Done without usage, or any other
\* event, leaves the six counters unchanged; the counters change in no other
\* step than such a Done or /clear; and the worker of a call sends at most one
\* event carrying usage.
C21_UsageOnDoneOnce ==
    [][/\ \A it \in InFlight :
            HandleDone(it) =>
              IF it.ev.Usage
              THEN /\ tokens'.inputTokens = tokens.inputTokens + Usage.InputTokens
                   /\ tokens'.outputTokens = tokens.outputTokens + Usage.OutputTokens
                   /\ tokens'.cachedTokens = tokens.cachedTokens + Usage.CachedTokens
              ELSE tokens' = tokens
       /\ \A it \in InFlight :
            (HandleStreamEvent(it) \/ HandleError(it)) => tokens' = tokens
       /\ tokens' # tokens =>
            \/ \E it \in InFlight : it.k = "StreamMsg" /\ it.ev.Type = "Done" /\ it.ev.Usage
            \/ KeyEnterClear
       /\ \A s \in DOMAIN streams' : Cardinality(UsageEvents(streams'[s])) <= 1]_vars

\* C21: the Done of a stream that reported usage was handled: the counters
\* hold that usage once, and the stream's worker returned after sending it.
C21_Witness ==
    /\ tokens.inputTokens = Usage.InputTokens
    /\ tokens.outputTokens = Usage.OutputTokens
    /\ \E s \in DOMAIN streams :
         /\ streams[s].pc = "usage" /\ streams[s].chan = <<>>
         /\ Cardinality(UsageEvents(streams[s])) = 1
    /\ StreamCompleteMsg(Nil) \in InFlight

\* C22: after Clear, History holds exactly one message, the one that was first
\* before the call, and the six token counters are zero, whatever appends,
\* Trim and UpdateTokenUsage calls came before.
C22_ClearResets ==
    [][HistoryClear =>
         /\ Len(history') = 1
         /\ history'[1] = history[1]
         /\ tokens'.inputTokens = 0 /\ tokens'.outputTokens = 0
         /\ tokens'.cachedTokens = 0 /\ tokens'.offPeakInputTokens = 0
         /\ tokens'.offPeakOutputTokens = 0 /\ tokens'.offPeakCachedTokens = 0]_vars

\* C22: Clear ran as the third call, after an off-peak UpdateTokenUsage had
\* made the counters positive: only the system prompt is left and the counters
\* are zero.
C22_Witness ==
    /\ histCalls = 3 /\ now = <<16, 30>>
    /\ history = <<SystemPrompt>> /\ tokens = NoTokens

\* The positions of the system messages of h that hold the marker of path.
Injected(h, path) ==
    {i \in DOMAIN h : h[i].Role = "system" /\ Contains(h[i].Content, FileMarker(path))}

\* C23: FileAlreadyInContext(path) is true exactly when a system message holds
\* the marker of path, and History holds at most one injected system message
\* per file path.
C23_OneInjectionPerPath ==
    \A path \in Paths :
      /\ FileAlreadyInContext(history, path) <=> Injected(history, path) # {}
      /\ Cardinality(Injected(history, path)) <= 1

\* The number of user messages in h.
UserCount(h) == Cardinality({i \in DOMAIN h : h[i].Role = "user"})

\* The request of a call holds the messages h, one for one and in order.
RequestIs(request, h) ==
    /\ Len(request) = Len(h)
    /\ \A i \in DOMAIN h :
         /\ request[i].Role = h[i].Role
         /\ request[i].Content = h[i].Content
         /\ request[i].ToolCallID = h[i].ToolCallID
         /\ Len(request[i].ToolCalls) = Len(h[i].ToolCalls)
         /\ \A j \in DOMAIN h[i].ToolCalls :
              /\ request[i].ToolCalls[j].ID = h[i].ToolCalls[j].ID
              /\ request[i].ToolCalls[j].Function.Name = h[i].ToolCalls[j].Name
              /\ request[i].ToolCalls[j].Function.Arguments = h[i].ToolCalls[j].Arguments

C25_AccumulatesCurrentStreamOnly ==
    [][\A it \in InFlight :
         (HandleStreamEvent(it) /\ it.ev.Type = "Content") => it.ch = streamEvents]_vars

\* C26: once the record at an index has a non-empty id, no later fragment
\* makes it empty, and a fragment whose id is empty leaves the stored id as it
\* was.
C26_IdNeverEmptied ==
    [][\A k \in DOMAIN asmOut :
         asmOut[k].ID # "" =>
           /\ asmOut'[k].ID # ""
           /\ asmIn'[Len(asmIn')].ID = "" => asmOut'[k].ID = asmOut[k].ID]_vars

\* The record at index 0 got the id "a", and a later fragment for the same
\* index with an empty id and a name was applied.
C26_Witness ==
    /\ Len(asmIn) >= 2
    /\ asmIn[1] = Delta(0, "a", "f", "")
    /\ asmIn[2] = Delta(0, "", "g", "x")
    /\ asmOut[1].ID = "a"
    /\ asmOut[1].Name = "fg"

\* The content of each finished stream of a sequence of events: the
\* concatenation of the Content fields of the events before each Done.
RECURSIVE SegmentContents(_, _)
SegmentContents(evs, acc) ==
    IF evs = <<>> THEN <<>>
    ELSE IF Head(evs).Type = "Done"
         THEN <<acc>> \o SegmentContents(Tail(evs), "")
         ELSE SegmentContents(Tail(evs), acc \o Head(evs).Content)

\* The contents of the assistant messages of a History, in order.
AssistantContents(h) ==
    LET a == SelectSeq(h, LAMBDA msg : msg.Role = "assistant")
    IN [k \in DOMAIN a |-> a[k].Content]

IsPrefix(p, q) == Len(p) <= Len(q) /\ SubSeq(q, 1, Len(p)) = p

\* C27: reasoning text is never persisted: whatever the order of reasoning and
\* content deltas of a stream, the assistant message appended on Done is the
\* concatenation of the stream's content deltas alone, and no History message
\* contains a reasoning fragment.
C27_ReasoningNotPersisted ==
    /\ \A k \in DOMAIN history : ~Contains(history[k].Content, ReasoningText)
    /\ IsPrefix(AssistantContents(history),
                SelectSeq(SegmentContents(sent, ""), LAMBDA c : c # ""))

\* A stream delivered reasoning, content, reasoning, content and Done, and its
\* assistant message is in History.
C27_Witness ==
    /\ Len(sent) = 5
    /\ sent[1].Type = "Reasoning" /\ sent[2] = ContentEvent("Hel")
    /\ sent[3].Type = "Reasoning" /\ sent[4] = ContentEvent("lo")
    /\ sent[5].Type = "Done"
    /\ Len(history) = 3
    /\ history[3].Role = "assistant" /\ history[3].Content = "Hello"

\* C28: the worker and the caller share nothing but the event channel: an
\* event the caller has received, its tool-call list included, is not changed
\* by anything the worker does afterwards.
C28_DeliveredListUnchanged ==
    [][\A s \in DOMAIN delivered :
         \A k \in DOMAIN delivered[s] : delivered'[s][k] = delivered[s][k]]_vars

\* C29: cancelling the context of the current session once its stream has
\* finished has no effect: the step leaves History, the token counters and the
\* accumulation buffers as they were, and no message reporting the
\* cancellation reaches Update afterwards.
C29_CancelAfterStreamIsNoOp ==
    /\ \A it \in InFlight : it.k = "StreamCompleteMsg" => it.err # "canceled"
    /\ \A k \in DOMAIN errors : errors[k] # "Stream error: canceled"

\* Stream s has failed: its creation failed, or Update has handled its Error
\* event.
Failed(s) ==
    /\ s \in DOMAIN streams
    /\ \/ ~streams[s].ok
       \/ /\ streams[s].pc = "error"
          /\ \A k \in DOMAIN streams[s].chan : streams[s].chan[k].Type # "Error"
          /\ \A it \in InFlight : ~(it.k = "StreamMsg" /\ it.ch = s /\ it.ev.Type = "Error")

\* C30: a failed stream is not retried: once the latest stream has failed, no
\* tool batch starts, no follow-up is handled and no stream is opened, until
\* the user submits a line.
C30_NoRetryAfterFailure ==
    [][Failed(Len(streams)) =>
         /\ Len(streams') > Len(streams) => nInputs' > nInputs
         /\ \A it \in InFlight : ~HandleExecuteTools(it) /\ ~HandleFollowUp(it)]_vars

\* The value after values[k], the first after the last; the first also when
\* k is 0.
After(values, k) == IF k >= Len(values) THEN values[1] ELSE values[k + 1]

\* C31: cycled values reach the Config and config.json only on save: a step
\* that changes either is a save (q or Ctrl+S) after a cycling key; while the
\* menu is open the Config is what it was when the menu was opened, and it
\* still is after Esc; a cycling key moves the selected option, and no other,
\* to the value after its current one in the option's list, the first after
\* the last.
C31_AppliedOnSaveOnly ==
    [][/\ Config(maxHistoryMessages, timeoutSeconds)' # Config(maxHistoryMessages, timeoutSeconds)
          \/ configFile' # configFile
          => configMenuActive /\ ~configMenuActive' /\ configMenuChanged /\ MenuSave
       /\ configMenuActive => Config(maxHistoryMessages, timeoutSeconds) = originalConfig
       /\ MenuEsc =>
            /\ Config(maxHistoryMessages, timeoutSeconds)' = originalConfig
            /\ configFile' = configFile
       /\ MenuCycle =>
            \A k \in DOMAIN configOptions :
              configOptions'[k] =
                IF k = configMenuIndex + 1
                THEN After(PossibleValues[k], PositionOf(PossibleValues[k], configOptions[k]))
                ELSE configOptions[k]]_vars

\* The menu was left with Esc after both options were cycled, the second one
\* past its last value: the options differ from the Config and from config.json,
\* which are what they were when the menu was opened.
C31_Witness ==
    /\ ~configMenuActive /\ configMenuChanged
    /\ originalConfig = Config(DefaultMaxHistoryMessages, 600)
    /\ configOptions = <<"20", "120">>
    /\ Config(maxHistoryMessages, timeoutSeconds) = originalConfig
    /\ configFile = originalConfig

\* C32: after cancellation the worker terminates and closes the channel in
\* every schedule: a worker whose context was cancelled has returned, or has
\* room in the channel for the event it sends next, also when nothing reads
\* the channel any more.
C32_WorkerNeverBlocked ==
    \A s \in DOMAIN streams :
      (streams[s].ok /\ s \in cancelled) =>
        Closed(streams[s]) \/ Len(streams[s].chan) < ChanCap

\* C33: in History an assistant message with the tool calls t1..tn is followed
\* by the tool messages for t1..tn, in that order, as far as they have been
\* appended: none of the n messages after it is a user, assistant or system
\* message.
C33_ToolResultsFollowAssistant ==
    \A k \in DOMAIN history :
      history[k].Role = "assistant" =>
        \A j \in DOMAIN history[k].ToolCalls :
          k + j <= Len(history) =>
            /\ history[k + j].Role = "tool"
            /\ history[k + j].ToolCallID = history[k].ToolCalls[j].ID

\* C34: whatever Add, Trim and Clear calls were made, the message list is not
\* empty and its first message is the system prompt added by NewHistory.
C34_SystemPromptFirst ==
    /\ Len(history) >= 1
    /\ history[1] = SystemPrompt

\* Trim with max_history_messages 0 cut a long History down to its four system
\* messages, and AddToolMessage then appended a fifth message.
C34_Witness ==
    /\ maxHistoryMessages = 0 /\ histCalls = 2
    /\ Len(history) = 5
    /\ history[4] = Message("system", "22", <<>>, "")
    /\ history[5].Role = "tool"

\* Every tool message of h has, earlier in h, an assistant message with the
\* tool call it answers.
Attached(h) ==
    \A k \in DOMAIN h :
      h[k].Role = "tool" =>
        \E j \in 1..(k - 1) :
          /\ h[j].Role = "assistant"
          /\ \E c \in DOMAIN h[j].ToolCalls : h[j].ToolCalls[c].ID = h[k].ToolCallID

\* C35: Trim keeps tool messages attached: if every tool message had its
\* assistant message before Trim, every tool message Trim retains has it after.
C35_TrimKeepsToolsAttached ==
    (histCalls >= 1 /\ Attached(before)) => Attached(history)

\* C36: after any sequence of UpdateTokenUsage and Clear calls with
\* non-negative usage, each off-peak counter is between 0 and its total
\* counter, so total minus off-peak (the regular-hour count of the cost
\* calculation) is never negative.
C36_OffPeakWithinTotal ==
    /\ 0 <= tokens.offPeakInputTokens /\ tokens.offPeakInputTokens <= tokens.inputTokens
    /\ 0 <= tokens.offPeakOutputTokens /\ tokens.offPeakOutputTokens <= tokens.outputTokens
    /\ 0 <= tokens.offPeakCachedTokens /\ tokens.offPeakCachedTokens <= tokens.cachedTokens

\* C36: usage has been recorded once off-peak and once in regular hours: the
\* off-peak counters are positive and below the totals.
C36_Witness ==
    /\ histCalls >= 2
    /\ tokens.inputTokens = 6 /\ tokens.offPeakInputTokens = 3
    /\ tokens.outputTokens = 4 /\ tokens.offPeakOutputTokens = 2
    /\ tokens.cachedTokens = 2 /\ tokens.offPeakCachedTokens = 1

\* C37: slash commands are handled only between turns: /clear is never applied
\* to History while a stream or a tool batch of a turn is in progress.
C37_ClearOnlyBetweenTurns ==
    [][KeyEnterClear => ~(\E it \in InFlight : it.k \in TurnKinds)]_vars

\* The autocomplete fields agree: there are matches, the selected index is one
\* of them and the suggestion is the name of the selected match.
AutocompleteConsistent ==
    autocompleteActive =>
      /\ Len(autocompleteMatches) > 0
      /\ 0 <= autocompleteSelectedIndex
      /\ autocompleteSelectedIndex < Len(autocompleteMatches)
      /\ autocompleteSuggestion = autocompleteMatches[autocompleteSelectedIndex + 1]

\* Enter pressed while a suggestion is active puts the suggestion and a space
\* in the input, and changes neither History nor the streams.
EnterFills ==
    (PressEnter /\ autocompleteActive /\ autocompleteSuggestion # "") =>
      /\ textInput' = autocompleteSuggestion \o " "
      /\ history' = history
      /\ streams' = streams

\* C38: whenever autocomplete is active the match list is non-empty, the
\* selected index is within it and the suggestion is the name of the match at
\* that index; and Enter pressed while a suggestion is active fills the input
\* with the command and a space without submitting it.
C38_Autocomplete == []AutocompleteConsistent /\ [][EnterFills]_vars

====
